---------------------------- MODULE Spec2Model ----------------------------
(***************************************************************************)
(* A model of the step-by-step analysis pipeline of the analytical agent   *)
(* (src/step_by_step_analytics.py): a DataFrame goes through six stages,   *)
(* each a method of StepByStepAnalytics, and the report is assembled by    *)
(* analyze_data_step_by_step.                                              *)
(*                                                                         *)
(* A DataFrame is a row count and a sequence of named columns; a cell is   *)
(* null (NaN / None), a finite number, an infinity or a string.  Floating  *)
(* point scores are carried as exact fractions [n, d] (d = 0 is NaN).      *)
(***************************************************************************)
EXTENDS Integers, Sequences, FiniteSets, TLC

VARIABLES data, pc, analysis_results, raised, ret, session_state

vars == <<data, pc, analysis_results, raised, ret, session_state>>

-----------------------------------------------------------------------------
(* Bounds of the model.                                                    *)

PipeRows == 2
PipeCols == 3
QualRows == 3
QualCols == 2
WideCols == 7
RecRows == 5
RecCols == 2
TallRows == 10
StatRows == 4
StatCols == 3
PatternRows == 6
SeasonMonths == 13
ChartRows == 11
ScenarioRows == 24

-----------------------------------------------------------------------------
(* Cells, columns, frames.                                                 *)

Null == [k |-> "null"]
Num(v) == [k |-> "num", v |-> v]
PosInf == [k |-> "inf", sign |-> 1]
NegInf == [k |-> "inf", sign |-> -1]
Str(s) == [k |-> "str", s |-> s]

IsNull(c) == c.k = "null"
IsInf(c) == c.k = "inf"
IsNegative(c) == (c.k = "num" /\ c.v < 0) \/ (c.k = "inf" /\ c.sign < 0)

Column(name, dtype, cells) == [name |-> name, dtype |-> dtype, cells |-> cells]
Frame(nrows, cols) == [nrows |-> nrows, cols |-> cols]

Range(s) == {s[i] : i \in DOMAIN s}

RECURSIVE SumSeq(_)
SumSeq(s) == IF s = <<>> THEN 0 ELSE Head(s) + SumSeq(Tail(s))

RECURSIVE SelectIdx(_, _, _)
\* the indices i of 1..n with P[i], in increasing order
SelectIdx(P, i, n) ==
  IF i > n THEN <<>>
  ELSE IF P[i] THEN <<i>> \o SelectIdx(P, i + 1, n)
  ELSE SelectIdx(P, i + 1, n)

Min(a, b) == IF a < b THEN a ELSE b
Max(a, b) == IF a > b THEN a ELSE b

-----------------------------------------------------------------------------
(* Column names: str.lower() and the substring test `word in name`.        *)

Lower(name) ==
  CASE name = "Total_Amount" -> "total_amount"
    [] name = "AMOUNT_USD" -> "amount_usd"
    [] name = "Amount_Paid" -> "amount_paid"
    [] name = "Unit_Price" -> "unit_price"
    [] OTHER -> name

\* lower-cased names that contain each word
NamesWith(word) ==
  CASE word = "amount" ->
         {"amount", "total_amount", "tax_amount", "amount_usd", "net_amount",
          "amount_due", "amount_paid", "fee_amount"}
    [] word = "revenue" -> {"revenue"}
    [] word = "total" -> {"total_amount"}
    [] word = "price" -> {"unit_price"}
    [] word = "date" -> {"order_date"}
    [] word = "month" -> {"month"}
    [] word = "year" -> {"year"}
    [] word = "period" -> {"period"}
    [] OTHER -> {}

Contains(word, s) == s \in NamesWith(word)

-----------------------------------------------------------------------------
(* pandas helpers.                                                         *)

len(df) == df.nrows
NCols(df) == Len(df.cols)
ColumnNames(df) == {df.cols[j].name : j \in 1..NCols(df)}
HasColumn(df, name) == name \in ColumnNames(df)
ColumnNamed(df, name) == df.cols[CHOOSE j \in 1..NCols(df) : df.cols[j].name = name]

\* data.isnull().sum().sum()
NullCount(col) == Cardinality({i \in DOMAIN col.cells : IsNull(col.cells[i])})
NullCells(df) == SumSeq([j \in 1..NCols(df) |-> NullCount(df.cols[j])])

\* len(data.dropna()): rows with no null cell
CompleteRows(df) ==
  Cardinality({i \in 1..len(df) : \A j \in 1..NCols(df) : ~IsNull(df.cols[j].cells[i])})

\* a variant of DuplicateRows: duplicated(keep=False) marks every member of
\* a group of equal rows
DuplicateRowsKeepFalse(df) ==
  Cardinality({i \in 1..df.nrows :
                 \E e \in (1..df.nrows) \ {i} :
                   \A j \in 1..Len(df.cols) : df.cols[j].cells[e] = df.cols[j].cells[i]})

\* data.duplicated().sum(): rows equal to an earlier row in every column
\* (pandas treats two nulls in the same column as equal)
RowsEqual(df, a, b) == \A j \in 1..NCols(df) : df.cols[j].cells[a] = df.cols[j].cells[b]
DuplicateRows(df) ==
  Cardinality({i \in 1..len(df) : \E e \in 1..(i - 1) : RowsEqual(df, e, i)})

\* data.select_dtypes(include=[np.number]).columns, as column positions
IsNumericDtype(col) == col.dtype \in {"int64", "float64"}
NumericCols(df) == SelectIdx([j \in 1..NCols(df) |-> IsNumericDtype(df.cols[j])], 1, NCols(df))

\* data[col].nunique(): distinct non-null values
NUnique(col) == Cardinality({c \in Range(col.cells) : ~IsNull(c)})

-----------------------------------------------------------------------------
(* Scores: exact fractions standing for the float64 values.                *)

Frac(n, d) == [n |-> n, d |-> d]
IsNaN(x) == x.d = 0
FracEq(x, y) == x.d > 0 /\ y.d > 0 /\ x.n * y.d = y.n * x.d
FracLt(x, y) == x.d > 0 /\ y.d > 0 /\ x.n * y.d < y.n * x.d
FracLe(x, y) == x.d > 0 /\ y.d > 0 /\ x.n * y.d <= y.n * x.d
FracGt(x, y) == FracLt(y, x)
Whole(v) == Frac(v, 1)


-----------------------------------------------------------------------------
(* Step 1: _step_1_data_overview.  Every expression of it is defined for   *)
(* any frame (a division by len(data) = 0 is a numpy division: NaN).       *)

col_info(df, col) ==
  [name |-> col.name,
   type |-> col.dtype,
   non_null_count |-> len(df) - NullCount(col),
   null_count |-> NullCount(col),
   null_percentage |-> Frac(NullCount(col) * 100, len(df)),
   \* '50+' (kept as 50) for a string column of 50 or more distinct values
   unique_values |-> IF col.dtype # "object" \/ NUnique(col) < 50 THEN NUnique(col) ELSE 50]

step_1_data_overview(df) ==
  [step_number |-> 1,
   title |-> "Data Overview & Structure",
   status |-> "completed",
   details |-> [total_rows |-> len(df),
                total_columns |-> NCols(df),
                column_info |-> [j \in 1..NCols(df) |-> col_info(df, df.cols[j])]]]

-----------------------------------------------------------------------------
(* Step 2: _step_2_data_quality.                                           *)

\* variants of completeness_score: floor division, and the missing ratio
completeness_score_floordiv(total_cells, null_cells) ==
  [n |-> ((total_cells - null_cells) \div total_cells) * 100, d |-> 1]

completeness_score_missing(total_cells, null_cells) ==
  [n |-> null_cells * 100, d |-> total_cells]

\* ((total_cells - null_cells) / total_cells) * 100
completeness_score(total_cells, null_cells) ==
  Frac((total_cells - null_cells) * 100, total_cells)

\* ((len(data) - duplicate_rows) / len(data)) * 100
consistency_score(rows, duplicate_rows) ==
  Frac((rows - duplicate_rows) * 100, rows)

\* the issues one numeric column adds, in the order the loop appends them
ColumnValidityIssues(col) ==
  (IF \E i \in DOMAIN col.cells : IsInf(col.cells[i])
     THEN <<[text |-> "Infinite values in", col |-> col.name]>> ELSE <<>>)
  \o
  (IF (\E i \in DOMAIN col.cells : IsNegative(col.cells[i]))
        /\ Contains("amount", Lower(col.name))
     THEN <<[text |-> "Negative values in amount field:", col |-> col.name]>> ELSE <<>>)

RECURSIVE ValidityIssuesFrom(_, _)
ValidityIssuesFrom(df, idx) ==
  IF idx = <<>> THEN <<>>
  ELSE ColumnValidityIssues(df.cols[Head(idx)]) \o ValidityIssuesFrom(df, Tail(idx))

validity_issues(df) == ValidityIssuesFrom(df, NumericCols(df))

\* a variant of validity_score: the penalty without the floor
validity_score_unfloored(issues) == 100 - Len(issues) * 10

\* max(0, 100 - len(validity_issues) * 10)
validity_score(issues) == Max(0, 100 - Len(issues) * 10)

\* a variant of overall_score: validity left out of the mean
overall_score_without_validity(completeness, consistency, validity) ==
  [n |-> completeness.n * consistency.d + consistency.n * completeness.d,
   d |-> 2 * completeness.d * consistency.d]

\* (completeness_score + consistency_score + validity_score) / 3
overall_score(completeness, consistency, validity) ==
  Frac(completeness.n * consistency.d + consistency.n * completeness.d
         + validity * completeness.d * consistency.d,
       3 * completeness.d * consistency.d)

\* a variant of completeness_text: the lower threshold is inclusive
completeness_text_inclusive(completeness) ==
  IF FracGt(completeness, Whole(95)) THEN "Excellent data completeness"
  ELSE IF FracLe(Whole(85), completeness) THEN "Good data completeness"
  ELSE "Data has significant missing values"

completeness_text(completeness) ==
  IF FracGt(completeness, Whole(95)) THEN "Excellent data completeness"
  ELSE IF FracGt(completeness, Whole(85)) THEN "Good data completeness"
  ELSE "Data has significant missing values"

step_2_data_quality(df) ==
  LET total_cells == len(df) * NCols(df)
      null_cells == NullCells(df)
      completeness == completeness_score(total_cells, null_cells)
      duplicate_rows == DuplicateRows(df)
      consistency == consistency_score(len(df), duplicate_rows)
      v_issues == validity_issues(df)
      validity == validity_score(v_issues)
      text == completeness_text(completeness)
  IN [step_number |-> 2,
      title |-> "Data Quality Assessment",
      status |-> "completed",
      details |->
        [overall_score |-> overall_score(completeness, consistency, validity),
         issues |-> (IF text = "Data has significant missing values"
                       THEN <<[text |-> text, count |-> 0]>> ELSE <<>>)
                    \o (IF duplicate_rows > 0
                          THEN <<[text |-> "Found duplicate rows", count |-> duplicate_rows]>>
                          ELSE <<>>),
         strengths |-> IF text = "Data has significant missing values" THEN <<>> ELSE <<text>>,
         completeness |-> [score |-> completeness,
                           missing_values |-> null_cells,
                           complete_rows |-> CompleteRows(df),
                           completion_rate |-> completeness],
         consistency |-> [score |-> consistency,
                          duplicate_rows |-> duplicate_rows,
                          unique_rows |-> len(df) - duplicate_rows],
         validity |-> [score |-> validity, issues |-> v_issues]]]

-----------------------------------------------------------------------------
(* pd.to_datetime.  A numeric column always converts (integers and floats  *)
(* are nanoseconds since 1970-01-01; NaN and the infinities become NaT); a *)
(* column of strings converts when every non-null string parses as a date. *)

HeadRows == 5

\* month strings 'YYYY-MM' and day strings 'YYYY-MM-15' from January 2024 on
MonthLabels ==
  <<"2024-01", "2024-02", "2024-03", "2024-04", "2024-05", "2024-06",
    "2024-07", "2024-08", "2024-09", "2024-10", "2024-11", "2024-12",
    "2025-01", "2025-02", "2025-03", "2025-04", "2025-05", "2025-06",
    "2025-07", "2025-08", "2025-09", "2025-10", "2025-11", "2025-12",
    "2026-01", "2026-02">>

DayLabels ==
  <<"2024-01-15", "2024-02-15", "2024-03-15", "2024-04-15",
    "2024-05-15", "2024-06-15", "2024-07-15", "2024-08-15",
    "2024-09-15", "2024-10-15", "2024-11-15", "2024-12-15",
    "2025-01-15", "2025-02-15", "2025-03-15", "2025-04-15",
    "2025-05-15", "2025-06-15", "2025-07-15", "2025-08-15",
    "2025-09-15", "2025-10-15", "2025-11-15", "2025-12-15",
    "2026-01-15", "2026-02-15">>

\* the month (year * 12 + month - 1) a string parses to, -1 when the parser rejects it
ParseDate(s) ==
  CASE (\E m \in DOMAIN MonthLabels : MonthLabels[m] = s) ->
         2024 * 12 + (CHOOSE m \in DOMAIN MonthLabels : MonthLabels[m] = s) - 1
    [] (\E m \in DOMAIN DayLabels : DayLabels[m] = s) ->
         2024 * 12 + (CHOOSE m \in DOMAIN DayLabels : DayLabels[m] = s) - 1
    [] s = "2024-01-20" -> 2024 * 12 + 0
    [] s = "2024-01-20" -> 2024 * 12 + 0
    [] s = "2023-12-31" -> 2023 * 12 + 11
    [] OTHER -> -1

NaT == -1

\* the month of one converted cell, NaT for a missing timestamp
CellMonth(c) ==
  CASE c.k = "null" -> NaT
    [] c.k = "inf" -> NaT
    [] c.k = "num" -> IF c.v >= 0 THEN 1970 * 12 + 0 ELSE 1969 * 12 + 11
    [] c.k = "str" -> ParseDate(c.s)
    [] OTHER -> c.month

CellConverts(c) == c.k # "str" \/ ParseDate(c.s) # NaT

\* pd.to_datetime(data[col].head()) does not raise
HeadConverts(col) == \A i \in 1..Min(HeadRows, Len(col.cells)) : CellConverts(col.cells[i])

\* pd.to_datetime(temp_data[date_col]) does not raise
ColumnConverts(col) == \A i \in DOMAIN col.cells : CellConverts(col.cells[i])

\* the loop `for col in data.columns: try: pd.to_datetime(data[col].head()) ...`
date_cols(df) == SelectIdx([j \in 1..NCols(df) |-> HeadConverts(df.cols[j])], 1, NCols(df))

-----------------------------------------------------------------------------
(* float64 values that may be infinite or NaN: k is "fin" (n / d, d > 0),  *)
(* "pinf", "ninf" or "nan".                                                *)

XFin(n, d) == [k |-> "fin", n |-> n, d |-> d]
XPInf == [k |-> "pinf", n |-> 0, d |-> 1]
XNInf == [k |-> "ninf", n |-> 0, d |-> 1]
XNaN == [k |-> "nan", n |-> 0, d |-> 1]

XOfCell(c) ==
  CASE c.k = "num" -> XFin(c.v, 1)
    [] c.k = "inf" -> IF c.sign > 0 THEN XPInf ELSE XNInf
    [] OTHER -> XNaN

XAdd(a, b) ==
  CASE a.k = "nan" \/ b.k = "nan" -> XNaN
    [] a.k = "fin" /\ b.k = "fin" ->
         IF a.d = b.d THEN XFin(a.n + b.n, a.d)
         ELSE XFin(a.n * b.d + b.n * a.d, a.d * b.d)
    [] a.k = "fin" -> b
    [] b.k = "fin" -> a
    [] OTHER -> IF a.k = b.k THEN a ELSE XNaN

XSign(a) ==
  CASE a.k = "pinf" -> 1
    [] a.k = "ninf" -> -1
    [] a.k = "fin" -> IF a.n > 0 THEN 1 ELSE IF a.n < 0 THEN -1 ELSE 0
    [] OTHER -> 0

\* a / b as numpy divides float64: x / 0 is an infinity or NaN, never an error
XDiv(a, b) ==
  CASE a.k = "nan" \/ b.k = "nan" -> XNaN
    [] a.k = "fin" /\ b.k = "fin" ->
         IF b.n = 0
           THEN (IF a.n > 0 THEN XPInf ELSE IF a.n < 0 THEN XNInf ELSE XNaN)
           ELSE IF b.n > 0 THEN XFin(a.n * b.d, a.d * b.n)
           ELSE XFin(-(a.n * b.d), a.d * (-b.n))
    [] a.k = "fin" -> XFin(0, 1)
    [] b.k = "fin" -> IF XSign(a) * (IF b.n < 0 THEN -1 ELSE 1) > 0 THEN XPInf ELSE XNInf
    [] OTHER -> XNaN

XGtZero(a) == XSign(a) > 0

RECURSIVE XSumSeq(_)
XSumSeq(s) == IF s = <<>> THEN XFin(0, 1) ELSE XAdd(Head(s), XSumSeq(Tail(s)))

\* Series.mean(): NaN for an empty series
XMean(s) == IF s = <<>> THEN XNaN ELSE XDiv(XSumSeq(s), XFin(Len(s), 1))

RECURSIVE DropNaN(_)
DropNaN(s) ==
  IF s = <<>> THEN <<>>
  ELSE IF Head(s).k = "nan" THEN DropNaN(Tail(s)) ELSE <<Head(s)>> \o DropNaN(Tail(s))

RECURSIVE SortedSeq(_)
\* the elements of a finite set of integers in increasing order
SortedSeq(S) ==
  IF S = {} THEN <<>>
  ELSE LET m == CHOOSE x \in S : \A y \in S : x <= y IN <<m>> \o SortedSeq(S \ {m})

-----------------------------------------------------------------------------
(* A stage returns its step record, or the exception that leaves it.       *)

Raise(exc, line) == [exception |-> exc, line |-> line, value |-> <<>>]
Returns(value) == [exception |-> "none", line |-> 0, value |-> value]
IsRaise(r) == r.exception # "none"

-----------------------------------------------------------------------------
(* Step 3: _step_3_statistical_analysis.  The Pearson coefficient of two   *)
(* columns is carried by the three integer sums it is the quotient of:     *)
(* r = cov / sqrt(vx * vy) over the rows where both columns have a value.  *)
(* Quantiles are carried in quarters and the IQR bounds in eighths, which  *)
(* is exact for integer cells.  describe() is kept as the counts.          *)

\* the rows DataFrame.corr() keeps for a pair: both cells present
PairRows(x, y) ==
  SelectIdx([i \in DOMAIN x.cells |-> ~IsNull(x.cells[i]) /\ ~IsNull(y.cells[i])],
            1, Len(x.cells))

\* a variant of corr_val: a column without variance counts as perfectly
\* correlated
corr_val_constant_one(x, y) ==
  LET rows == PairRows(x, y)
      n == Len(rows)
      xs == [r \in 1..n |-> x.cells[rows[r]]]
      ys == [r \in 1..n |-> y.cells[rows[r]]]
  IN IF \E r \in 1..n : xs[r].k # "num" \/ ys[r].k # "num" THEN [k |-> "nan"]
     ELSE LET sx == SumSeq([r \in 1..n |-> xs[r].v])
              sy == SumSeq([r \in 1..n |-> ys[r].v])
              cov == n * SumSeq([r \in 1..n |-> xs[r].v * ys[r].v]) - sx * sy
              vx == n * SumSeq([r \in 1..n |-> xs[r].v * xs[r].v]) - sx * sx
              vy == n * SumSeq([r \in 1..n |-> ys[r].v * ys[r].v]) - sy * sy
          IN IF vx = 0 \/ vy = 0 THEN [k |-> "fin", cov |-> 1, vx |-> 1, vy |-> 1]
             ELSE [k |-> "fin", cov |-> cov, vx |-> vx, vy |-> vy]

\* corr_matrix.iloc[i, j]: NaN when a column has an infinite value there,
\* fewer than one row is left, or a variance is zero
corr_val(x, y) ==
  LET rows == PairRows(x, y)
      n == Len(rows)
      xs == [r \in 1..n |-> x.cells[rows[r]]]
      ys == [r \in 1..n |-> y.cells[rows[r]]]
  IN IF \E r \in 1..n : xs[r].k # "num" \/ ys[r].k # "num" THEN [k |-> "nan"]
     ELSE LET sx == SumSeq([r \in 1..n |-> xs[r].v])
              sy == SumSeq([r \in 1..n |-> ys[r].v])
              cov == n * SumSeq([r \in 1..n |-> xs[r].v * ys[r].v]) - sx * sy
              vx == n * SumSeq([r \in 1..n |-> xs[r].v * xs[r].v]) - sx * sx
              vy == n * SumSeq([r \in 1..n |-> ys[r].v * ys[r].v]) - sy * sy
          IN IF vx = 0 \/ vy = 0 THEN [k |-> "nan"]
             ELSE [k |-> "fin", cov |-> cov, vx |-> vx, vy |-> vy]

\* abs(corr_val) > 0.7 (a comparison with NaN is False)
is_strong(r) == r.k = "fin" /\ 100 * r.cov * r.cov > 49 * r.vx * r.vy

RECURSIVE PairsFrom(_, _, _)
\* the index pairs of `for i in range(n): for j in range(i + 1, n)`, in order
PairsFrom(i, j, n) ==
  IF i > n THEN <<>>
  ELSE IF j > n THEN PairsFrom(i + 1, i + 2, n)
  ELSE <<<<i, j>>>> \o PairsFrom(i, j + 1, n)

RECURSIVE PairsFromDiagonal(_, _, _)
\* a variant of PairsFrom: the inner loop starts at i, not at i + 1
PairsFromDiagonal(i, j, n) ==
  IF i > n THEN <<>>
  ELSE IF j > n THEN PairsFromDiagonal(i + 1, i + 1, n)
  ELSE <<<<i, j>>>> \o PairsFromDiagonal(i, j + 1, n)

\* a variant of strong_corrs: the diagonal of the matrix is scanned too
strong_corrs_with_diagonal(df) ==
  LET numeric_cols == NumericCols(df)
      pairs == PairsFromDiagonal(1, 1, Len(numeric_cols))
      val(p) == corr_val(df.cols[numeric_cols[p[1]]], df.cols[numeric_cols[p[2]]])
      keep == SelectIdx([p \in 1..Len(pairs) |-> is_strong(val(pairs[p]))], 1, Len(pairs))
  IN [e \in 1..Len(keep) |->
        [var1 |-> df.cols[numeric_cols[pairs[keep[e]][1]]].name,
         var2 |-> df.cols[numeric_cols[pairs[keep[e]][2]]].name,
         correlation |-> val(pairs[keep[e]])]]

\* strong_corrs: the upper-triangle entries of the matrix with |r| > 0.7
strong_corrs(df) ==
  LET numeric_cols == NumericCols(df)
      pairs == PairsFrom(1, 2, Len(numeric_cols))
      val(p) == corr_val(df.cols[numeric_cols[p[1]]], df.cols[numeric_cols[p[2]]])
      keep == SelectIdx([p \in 1..Len(pairs) |-> is_strong(val(pairs[p]))], 1, Len(pairs))
  IN [e \in 1..Len(keep) |->
        [var1 |-> df.cols[numeric_cols[pairs[keep[e]][1]]].name,
         var2 |-> df.cols[numeric_cols[pairs[keep[e]][2]]].name,
         correlation |-> val(pairs[keep[e]])]]

\* corr_matrix = data[numeric_cols].corr(): one row and one column for each
\* numeric column, in the order of the columns
corr_matrix(df) ==
  LET numeric_cols == NumericCols(df)
  IN [i \in 1..Len(numeric_cols) |->
        [j \in 1..Len(numeric_cols) |->
           corr_val(df.cols[numeric_cols[i]], df.cols[numeric_cols[j]])]]

RECURSIVE InsertSorted(_, _)
InsertSorted(v, s) ==
  IF s = <<>> THEN <<v>>
  ELSE IF v <= Head(s) THEN <<v>> \o s
  ELSE <<Head(s)>> \o InsertSorted(v, Tail(s))

RECURSIVE SortValues(_)
SortValues(s) == IF s = <<>> THEN <<>> ELSE InsertSorted(Head(s), SortValues(Tail(s)))

\* the finite values of a column in increasing order (quantile skips nulls)
SortedValues(col) ==
  LET idx == SelectIdx([i \in DOMAIN col.cells |-> col.cells[i].k = "num"], 1, Len(col.cells))
  IN SortValues([r \in 1..Len(idx) |-> col.cells[idx[r]].v])

\* a variant of quantile4: interpolation='lower', the value at the floor of
\* the position
quantile4_lower(col, quarters) ==
  LET sorted == SortedValues(col)
      pos4 == (Len(sorted) - 1) * quarters
  IN 4 * sorted[(pos4 \div 4) + 1]

\* 4 * data[col].quantile(quarters / 4): linear interpolation between the
\* two values around position (n - 1) * q of the sorted values
quantile4(col, quarters) ==
  LET sorted == SortedValues(col)
      pos4 == (Len(sorted) - 1) * quarters
      lo == (pos4 \div 4) + 1
      rem == pos4 % 4
  IN IF rem = 0 THEN 4 * sorted[lo]
     ELSE sorted[lo] * (4 - rem) + sorted[lo + 1] * rem

\* a column whose quantiles are numbers: it has a value and none is infinite
HasQuantiles(col) ==
  /\ \E i \in DOMAIN col.cells : col.cells[i].k = "num"
  /\ \A i \in DOMAIN col.cells : col.cells[i].k # "inf"

\* 4 * IQR, 8 * lower_bound and 8 * upper_bound
IQR4(col) == quantile4(col, 3) - quantile4(col, 1)
lower_bound8(col) == 2 * quantile4(col, 1) - 3 * IQR4(col)
upper_bound8(col) == 2 * quantile4(col, 3) + 3 * IQR4(col)

\* ((data[col] < lower_bound) | (data[col] > upper_bound)).sum()
outlier_count(col) ==
  IF ~HasQuantiles(col) THEN 0
  ELSE Cardinality({i \in DOMAIN col.cells :
                      /\ col.cells[i].k = "num"
                      /\ \/ 8 * col.cells[i].v < lower_bound8(col)
                         \/ 8 * col.cells[i].v > upper_bound8(col)})

\* outliers[col]; the bounds are NaN (d = 0) for a column without quantiles
outliers_of(df, col) ==
  [col |-> col.name,
   count |-> outlier_count(col),
   percentage |-> Frac(outlier_count(col) * 100, len(df)),
   lower_bound |-> IF HasQuantiles(col) THEN Frac(lower_bound8(col), 8) ELSE Frac(0, 0),
   upper_bound |-> IF HasQuantiles(col) THEN Frac(upper_bound8(col), 8) ELSE Frac(0, 0)]

step_3_statistical_analysis(df) ==
  LET numeric_cols == NumericCols(df)
  IN [step_number |-> 3,
      title |-> "Statistical Analysis",
      status |-> "completed",
      details |->
        [summary_statistics |-> [i \in 1..Len(numeric_cols) |->
                                   [col |-> df.cols[numeric_cols[i]].name,
                                    count |-> len(df) - NullCount(df.cols[numeric_cols[i]])]],
         has_correlations |-> Len(numeric_cols) > 1,
         \* the keys 'correlations' and 'strong_correlations' exist only with two
         \* numeric columns
         correlations |-> IF Len(numeric_cols) > 1 THEN corr_matrix(df) ELSE <<>>,
         strong_correlations |-> IF Len(numeric_cols) > 1 THEN strong_corrs(df) ELSE <<>>,
         outliers |-> [i \in 1..Len(numeric_cols) |->
                         outliers_of(df, df.cols[numeric_cols[i]])]]]

-----------------------------------------------------------------------------
(* Step 4: _step_4_pattern_detection.                                      *)

\* the chronologically ordered month buckets: groupby('month') drops NaT keys
MonthBuckets(date_col) ==
  SortedSeq({CellMonth(date_col.cells[i]) : i \in DOMAIN date_col.cells} \ {NaT})

RowsOfMonth(date_col, month) ==
  SelectIdx([i \in DOMAIN date_col.cells |-> CellMonth(date_col.cells[i]) = month],
            1, Len(date_col.cells))

\* groupby('month')[value_col].sum(): nulls are skipped, an all-null group sums to 0
GroupSum(value_col, rows) ==
  XSumSeq([i \in 1..Len(rows) |->
             IF IsNull(value_col.cells[rows[i]]) THEN XFin(0, 1)
             ELSE XOfCell(value_col.cells[rows[i]])])

\* groupby('month')[value_col].count(): the value column then holds the
\* converted dates or their periods, non-null in every row of a bucket
GroupCount(rows) == XFin(Len(rows), 1)

\* monthly_data: the value column is summed while it is still numeric; it is
\* counted when the conversion of date_col or the 'month' column replaced it
monthly_data(date_col, value_col) ==
  LET buckets == MonthBuckets(date_col)
      summed == value_col.name # date_col.name /\ value_col.name # "month"
  IN [b \in 1..Len(buckets) |->
        IF summed THEN GroupSum(value_col, RowsOfMonth(date_col, buckets[b]))
        ELSE GroupCount(RowsOfMonth(date_col, buckets[b]))]

\* a float64 rate carried to six decimal places (rounded down), so that the
\* rates of a long series add up over one denominator
Micro(x) == IF x.k = "fin" THEN XFin((x.n * 1000000) \div x.d, 1000000) ELSE x

\* monthly_data.pct_change().dropna(): x[t] / x[t-1] - 1, the first entry is NaN
growth_rates(monthly) ==
  DropNaN([t \in 1..(Len(monthly) - 1) |->
             Micro(XAdd(XDiv(monthly[t + 1], monthly[t]), XFin(-1, 1)))])

\* growth_rates.mean() * 100
avg_growth(rates) ==
  LET m == XMean(rates)
  IN IF m.k # "fin" THEN m
     ELSE IF m.d % 100 = 0 THEN XFin(m.n, m.d \div 100)
     ELSE XFin(m.n * 100, m.d)

\* a variant of trend_direction: an average of zero (or NaN) counts as growth
trend_direction_nonnegative(avg) ==
  IF XSign(avg) >= 0 THEN "increasing" ELSE "decreasing"

\* 'increasing' if avg_growth > 0 else 'decreasing'
trend_direction(avg) == IF XGtZero(avg) THEN "increasing" ELSE "decreasing"

growth_trends(value_col, monthly) ==
  IF Len(monthly) > 1
    THEN LET avg == avg_growth(growth_rates(monthly))
         IN <<[metric |-> value_col.name,
               average_monthly_growth |-> avg,
               trend_direction |-> trend_direction(avg)]>>
    ELSE <<>>

\* temp_data.groupby('month_num')[value_col].mean(): per month of the year,
\* [month_num, sum, count] over the non-null values
MonthNums(date_col) ==
  SortedSeq({(CellMonth(date_col.cells[i]) % 12) + 1 :
               i \in {r \in DOMAIN date_col.cells : CellMonth(date_col.cells[r]) # NaT}})

seasonal_pattern(date_col, value_col) ==
  LET nums == MonthNums(date_col)
      rowsOf(m) == {i \in DOMAIN date_col.cells :
                      /\ CellMonth(date_col.cells[i]) # NaT
                      /\ (CellMonth(date_col.cells[i]) % 12) + 1 = m
                      /\ ~IsNull(value_col.cells[i])}
      sumOf(m) == XSumSeq([i \in 1..Len(date_col.cells) |->
                             IF i \in rowsOf(m) THEN XOfCell(value_col.cells[i])
                             ELSE XFin(0, 1)])
  IN [g \in 1..Len(nums) |->
        [month_num |-> nums[g], sum |-> sumOf(nums[g]),
         count |-> Cardinality(rowsOf(nums[g]))]]

RECURSIVE Gcd(_, _)
Gcd(a, b) == IF b = 0 THEN a ELSE Gcd(b, a % b)

RECURSIVE LcmCounts(_)
LcmCounts(groups) ==
  IF groups = <<>> THEN 1
  ELSE LET rest == LcmCounts(Tail(groups))
       IN (Head(groups).count \div Gcd(Head(groups).count, rest)) * rest

\* the group means over one denominator: mean[g] = ScaledMeans(groups)[g] / L
\* for the groups that have a mean
ScaledMeans(groups) ==
  LET live == SelectIdx([g \in 1..Len(groups) |-> groups[g].count > 0], 1, Len(groups))
      L == LcmCounts([g \in 1..Len(live) |-> groups[live[g]]])
  IN [g \in 1..Len(live) |-> groups[live[g]].sum.n * (L \div groups[live[g]].count)]

\* k * sum(a^2) - sum(a)^2, as the sum of the squared pairwise differences
PairwiseSquares(a) ==
  SumSeq([i \in 1..Len(a) |->
            SumSeq([j \in 1..Len(a) |-> IF i < j THEN (a[i] - a[j]) * (a[i] - a[j]) ELSE 0])])

\* a variant of seasonal_strength_exceeds: any positive strength counts
seasonal_strength_positive(groups) ==
  LET a == ScaledMeans(groups)
  IN /\ Len(a) > 1
     /\ \A g \in 1..Len(groups) : groups[g].sum.k = "fin"
     /\ SumSeq(a) >= 0
     /\ PairwiseSquares(a) > 0

\* seasonal_pattern.std() / seasonal_pattern.mean() > 0.1, over the groups
\* that have a mean (std with ddof = 1): with S the sum and P the pairwise
\* squares of the k scaled means, 100 * k * P > (k - 1) * S^2 and S > 0; a
\* zero mean gives an infinite strength when the means differ
seasonal_strength_exceeds(groups) ==
  LET a == ScaledMeans(groups)
      k == Len(a)
      S == SumSeq(a)
      P == PairwiseSquares(a)
  IN /\ k > 1
     /\ \A g \in 1..Len(groups) : groups[g].sum.k = "fin"
     /\ IF S > 0 THEN P > 0 /\ (100 * k * P - 1) \div (k - 1) >= S * S
        ELSE S = 0 /\ P > 0

seasonal_patterns(date_col, value_col) ==
  LET groups == seasonal_pattern(date_col, value_col)
  IN IF seasonal_strength_exceeds(groups)
       THEN <<[metric |-> value_col.name]>>
       ELSE <<>>

\* a converted date and a monthly period (NaT keeps month = NaT)
Timestamp(month) == [k |-> "ts", month |-> month]
Period(month) == [k |-> "period", month |-> month]

RECURSIVE InsertRow(_, _, _)
InsertRow(i, order, key) ==
  IF order = <<>> THEN <<i>>
  ELSE IF key[i] < key[Head(order)] THEN <<i>> \o order
  ELSE <<Head(order)>> \o InsertRow(i, Tail(order), key)

RECURSIVE SortRows(_, _)
\* the rows 1..n in increasing key order, equal keys in their original order
SortRows(n, key) ==
  IF n = 0 THEN <<>> ELSE InsertRow(n, SortRows(n - 1, key), key)

\* temp_data.sort_values(date_col): by month (the day of a date is not
\* carried), missing dates last
sort_values(df, j) ==
  LET key == [i \in 1..len(df) |->
                IF df.cols[j].cells[i].month = NaT THEN 2147483647
                ELSE df.cols[j].cells[i].month]
      order == SortRows(len(df), key)
  IN Frame(len(df),
           [c \in 1..NCols(df) |->
              [df.cols[c] EXCEPT !.cells = [i \in 1..len(df) |-> df.cols[c].cells[order[i]]]]])

\* temp_data[name] = cells: the column is replaced, or appended as the last
assign_column(df, col) ==
  IF HasColumn(df, col.name)
    THEN [df EXCEPT !.cols = [c \in 1..NCols(df) |->
                                IF df.cols[c].name = col.name THEN col ELSE df.cols[c]]]
    ELSE [df EXCEPT !.cols = Append(@, col)]

\* the working table of step 4 when the stage ends: the date column
\* converted, the rows sorted, 'month' and (from 12 buckets on) 'month_num'
\* assigned; the table as given when the stage stops before changing it
temp_data_of(df) ==
  LET dcols == date_cols(df)
      numeric_cols == NumericCols(df)
  IN IF dcols = <<>> \/ numeric_cols = <<>> THEN df
     ELSE LET j == dcols[1]
              name == df.cols[j].name
          IN IF ~ColumnConverts(df.cols[j]) THEN df
             ELSE LET converted ==
                        assign_column(df,
                          Column(name, "datetime64[ns]",
                                 [i \in 1..len(df) |-> Timestamp(CellMonth(df.cols[j].cells[i]))]))
                      sorted == sort_values(converted, j)
                      monthly ==
                        assign_column(sorted,
                          Column("month", "period[M]",
                                 [i \in 1..len(df) |-> Period(sorted.cols[j].cells[i].month)]))
                      buckets == MonthBuckets(df.cols[j])
                  IN IF Len(buckets) < 12 THEN monthly
                     ELSE assign_column(monthly,
                            Column("month_num", "int32",
                                   [i \in 1..len(df) |->
                                      IF monthly.cols[j].cells[i].month = NaT THEN Null
                                      ELSE Num((monthly.cols[j].cells[i].month % 12) + 1)]))

\* a variant of step_4_tables: temp_data = data, the working table is the
\* caller's table itself
step_4_tables_in_place(df) == [data |-> temp_data_of(df), temp_data |-> temp_data_of(df)]

\* the caller's table and the working table after step 4: temp_data is
\* data.copy(), every assignment of the stage goes to the copy
step_4_tables(df) == [data |-> df, temp_data |-> temp_data_of(df)]

PatternStep(growth, seasonal) ==
  [step_number |-> 4,
   title |-> "Pattern Detection & Trends",
   status |-> "completed",
   details |-> [temporal_patterns |-> <<>>,
                seasonal_patterns |-> seasonal,
                growth_trends |-> growth,
                anomalies |-> <<>>]]

step_4_pattern_detection(df) ==
  LET dcols == date_cols(df)
      numeric_cols == NumericCols(df)
  IN IF dcols = <<>> \/ numeric_cols = <<>> THEN Returns(PatternStep(<<>>, <<>>))
     ELSE LET date_col == df.cols[dcols[1]]
              value_col == df.cols[numeric_cols[1]]
              monthly == monthly_data(date_col, value_col)
          IN IF ~ColumnConverts(date_col) THEN Raise("ValueError", 309)
             ELSE IF Len(monthly) >= 12 /\ value_col.name = date_col.name
               THEN Raise("TypeError", 336)
             ELSE Returns(PatternStep(growth_trends(value_col, monthly),
                                      IF Len(monthly) >= 12
                                        THEN seasonal_patterns(date_col, value_col)
                                        ELSE <<>>))

-----------------------------------------------------------------------------
(* Step 5: _step_5_business_intelligence.  An insight is kept as the rule  *)
(* that wrote it and the column it is about; the formatted amounts are not *)
(* carried.                                                                *)

RevenueWords == <<"revenue", "total", "amount", "price">>

IsRevenueName(name) ==
  \E w \in 1..Len(RevenueWords) : Contains(RevenueWords[w], Lower(name))

\* [col for col in numeric_cols if any(word in col.lower() for word in [...])]
revenue_cols(df) ==
  LET numeric_cols == NumericCols(df)
      keep == SelectIdx([i \in 1..Len(numeric_cols) |->
                           IsRevenueName(df.cols[numeric_cols[i]].name)],
                        1, Len(numeric_cols))
  IN [i \in 1..Len(keep) |-> numeric_cols[keep[i]]]

Insight(kind, col) == [kind |-> kind, col |-> col]

revenue_insights(df) ==
  LET rcols == revenue_cols(df)
  IN IF rcols = <<>> THEN Returns(<<>>)
     ELSE LET revenue_col == df.cols[rcols[1]].name
          IN Returns(<<Insight("Total", revenue_col),
                       Insight("Average transaction value", revenue_col),
                       Insight("High-value transactions (top 20%)", revenue_col)>>)

customer_col(df) == IF HasColumn(df, "customer_name") THEN "customer_name" ELSE "customer_id"

\* len(data) / unique_customers divides two Python ints
customer_insights(df) ==
  IF ~(HasColumn(df, "customer_name") \/ HasColumn(df, "customer_id")) THEN Returns(<<>>)
  ELSE IF NUnique(ColumnNamed(df, customer_col(df))) = 0 THEN Raise("ZeroDivisionError", 381)
  ELSE Returns(<<Insight("Total unique customers", customer_col(df)),
                 Insight("Average transactions per customer", customer_col(df))>>)

\* groupby(key).size().idxmax() raises on no group: groupby drops null keys
geographic_insights(df) ==
  IF ~HasColumn(df, "customer_country") THEN Returns(<<>>)
  ELSE IF NUnique(ColumnNamed(df, "customer_country")) = 0 THEN Raise("ValueError", 388)
  ELSE IF revenue_cols(df) = <<>> THEN Raise("IndexError", 389)
  ELSE Returns(<<Insight("Top market by volume", "customer_country"),
                 Insight("Top market by revenue", "customer_country")>>)

product_insights(df) ==
  IF ~HasColumn(df, "product_name") THEN Returns(<<>>)
  ELSE IF NUnique(ColumnNamed(df, "product_name")) = 0 THEN Raise("ValueError", 395)
  ELSE Returns(<<Insight("Most popular product", "product_name")>>)

BusinessStep(insights) ==
  [step_number |-> 5,
   title |-> "Business Intelligence & Insights",
   status |-> "completed",
   insights |-> insights]

step_5_business_intelligence(df) ==
  LET revenue == revenue_insights(df)
      customer == customer_insights(df)
      geographic == geographic_insights(df)
      product == product_insights(df)
  IN IF IsRaise(customer) THEN customer
     ELSE IF IsRaise(geographic) THEN geographic
     ELSE IF IsRaise(product) THEN product
     ELSE Returns(BusinessStep(revenue.value \o customer.value
                                 \o geographic.value \o product.value))

-----------------------------------------------------------------------------
(* Step 6: _step_6_recommendations.                                        *)

Recommendation(category, priority) == [category |-> category, priority |-> priority]

\* null_percentage = (nulls / (len(data) * len(data.columns))) * 100
null_percentage(df) == Frac(NullCells(df) * 100, len(df) * NCols(df))

\* a variant of needs_data_quality: null_percentage >= 10
needs_data_quality_at_ten(df) == FracLe(Whole(10), null_percentage(df))

\* null_percentage > 10
needs_data_quality(df) == FracGt(null_percentage(df), Whole(10))

\* a variant of needs_performance_monitoring: the date columns alone decide
needs_performance_monitoring_date_only(df) == date_cols(df) # <<>>

\* len(numeric_cols) > 0 and, in it, date_cols non-empty
needs_performance_monitoring(df) == NumericCols(df) # <<>> /\ date_cols(df) # <<>>

\* a variant of recommendations_of: the automation entry appended before the
\* market entry
recommendations_automation_early(df) ==
  (IF needs_data_quality(df) THEN <<Recommendation("Data Quality", "High")>> ELSE <<>>)
  \o (IF needs_performance_monitoring(df)
        THEN <<Recommendation("Performance Monitoring", "Medium")>> ELSE <<>>)
  \o <<Recommendation("Process Automation", "Low")>>
  \o (IF HasColumn(df, "customer_country")
        THEN <<Recommendation("Market Expansion", "Medium")>> ELSE <<>>)

recommendations_of(df) ==
  (IF needs_data_quality(df) THEN <<Recommendation("Data Quality", "High")>> ELSE <<>>)
  \o (IF needs_performance_monitoring(df)
        THEN <<Recommendation("Performance Monitoring", "Medium")>> ELSE <<>>)
  \o (IF HasColumn(df, "customer_country")
        THEN <<Recommendation("Market Expansion", "Medium")>> ELSE <<>>)
  \o <<Recommendation("Process Automation", "Low")>>

step_6_recommendations(df) ==
  [step_number |-> 6,
   title |-> "Strategic Recommendations",
   status |-> "completed",
   recommendations |-> recommendations_of(df),
   action_items |-> <<>>,
   risk_alerts |-> <<>>]

-----------------------------------------------------------------------------
(* ChartGenerator.prepare_time_series_data (src/visualizations.py): the    *)
(* date and numeric columns are detected on a sample, the first of each is *)
(* selected, and the two-column series is built on a copy.                 *)

DateWords == <<"date", "time", "month", "year", "day", "period">>

\* any(word in col_str for word in [...])
has_date_name(name) ==
  \E w \in 1..Len(DateWords) : Contains(DateWords[w], Lower(name))

SampleRows == 10

\* data[col].dropna().head(10)
test_data(col) ==
  LET idx == SelectIdx([i \in DOMAIN col.cells |-> ~IsNull(col.cells[i])], 1, Len(col.cells))
  IN [r \in 1..Min(SampleRows, Len(idx)) |-> col.cells[idx[r]]]

\* the number a string parses to under pd.to_numeric, -1 when it is rejected
ParseNumber(s) ==
  CASE s = "12" -> 12
    [] s = "7" -> 7
    [] OTHER -> -1

\* pd.to_numeric(x, errors='raise') accepts the cell
CellIsNumber(c) == c.k \in {"num", "inf"} \/ (c.k = "str" /\ ParseNumber(c.s) >= 0)

\* pd.to_datetime(test_data, errors='raise') does not raise
SampleConverts(col) == \A r \in 1..Len(test_data(col)) : CellConverts(test_data(col)[r])

\* the columns the loop appends to date_columns: a date word in the name, a
\* non-empty sample, and the sample parses
named_date_columns(df) ==
  SelectIdx([j \in 1..NCols(df) |->
               /\ has_date_name(df.cols[j].name)
               /\ Len(test_data(df.cols[j])) > 0
               /\ SampleConverts(df.cols[j])],
            1, NCols(df))

\* a variant of numeric_columns: one number in the sample is enough
numeric_columns_any_cell(df) ==
  SelectIdx([j \in 1..NCols(df) |->
               \E r \in 1..Len(test_data(df.cols[j])) : CellIsNumber(test_data(df.cols[j])[r])],
            1, NCols(df))

\* the columns the loop appends to numeric_columns
numeric_columns(df) ==
  SelectIdx([j \in 1..NCols(df) |->
               /\ Len(test_data(df.cols[j])) > 0
               /\ \A r \in 1..Len(test_data(df.cols[j])) : CellIsNumber(test_data(df.cols[j])[r])],
            1, NCols(df))

\* str(data[first_col].iloc[0]) has 7 or more characters, holds '-', and
\* parses with '-01' appended: a 'YYYY-MM' month string (a day string with
\* '-01' appended is not taken as a date)
IsMonthString(c) == c.k = "str" /\ \E m \in DOMAIN MonthLabels : MonthLabels[m] = c.s

\* the first column, when the fallback (lines 50-65) takes it as the date
fallback_date_columns(df) ==
  IF Len(test_data(df.cols[1])) = 0 THEN <<>>
  ELSE IF SampleConverts(df.cols[1]) THEN <<1>>
  ELSE IF IsMonthString(df.cols[1].cells[1]) THEN <<1>>
  ELSE <<>>

\* a variant of date_columns: the fallback is consulted first
date_columns_fallback_first(df) ==
  IF NCols(df) >= 2 /\ fallback_date_columns(df) # <<>>
    THEN [columns |-> fallback_date_columns(df), via |-> "first-column fallback"]
    ELSE [columns |-> named_date_columns(df), via |-> "name"]

\* a variant of date_columns: the fallback does not ask for two columns
date_columns_any_width(df) ==
  IF named_date_columns(df) # <<>>
    THEN [columns |-> named_date_columns(df), via |-> "name"]
    ELSE [columns |-> fallback_date_columns(df), via |-> "first-column fallback"]

\* date_columns and the rule that filled it
date_columns(df) ==
  IF named_date_columns(df) # <<>>
    THEN [columns |-> named_date_columns(df), via |-> "name"]
    ELSE IF NCols(df) >= 2
      THEN [columns |-> fallback_date_columns(df), via |-> "first-column fallback"]
      ELSE [columns |-> <<>>, via |-> "name"]

NoSeries ==
  [status |-> "none", date_col |-> "", value_col |-> "", via |-> "",
   date_columns |-> <<>>, numeric_columns |-> <<>>, rows |-> <<>>]

ColumnNamesAt(df, idx) == [r \in 1..Len(idx) |-> df.cols[idx[r]].name]

\* lines 19-71: None for an empty table or when a role has no column, else
\* the first date column and the first numeric column
select_columns(df) ==
  IF len(df) = 0 \/ NCols(df) = 0 THEN NoSeries
  ELSE LET dates == date_columns(df)
           numbers == numeric_columns(df)
       IN IF dates.columns = <<>> \/ numbers = <<>> THEN NoSeries
          ELSE [status |-> "selected",
                date_col |-> df.cols[dates.columns[1]].name,
                value_col |-> df.cols[numbers[1]].name,
                via |-> dates.via,
                date_columns |-> ColumnNamesAt(df, dates.columns),
                numeric_columns |-> ColumnNamesAt(df, numbers),
                rows |-> <<>>]

\* pd.to_numeric(x, errors='coerce'): a rejected cell becomes NaN
to_numeric(c) ==
  CASE c.k = "num" -> XFin(c.v, 1)
    [] c.k = "inf" -> XOfCell(c)
    [] c.k = "str" /\ ParseNumber(c.s) >= 0 -> XFin(ParseNumber(c.s), 1)
    [] OTHER -> XNaN

\* lines 78-86: the whole date column parses, or every cell does with '-01'
\* appended to its string
series_dates_parse(col) ==
  \/ ColumnConverts(col)
  \/ \A i \in DOMAIN col.cells : IsMonthString(col.cells[i])

\* a variant of build_series: the rows are left in the order of the table
build_series_unsorted(df, selected) ==
  LET date == ColumnNamed(df, selected.date_col)
      value == ColumnNamed(df, selected.value_col)
      keep == SelectIdx([i \in 1..len(df) |->
                           /\ CellMonth(date.cells[i]) # NaT
                           /\ to_numeric(value.cells[i]).k # "nan"],
                        1, len(df))
  IN IF selected.date_col = selected.value_col THEN [selected EXCEPT !.status = "none"]
     ELSE IF ~series_dates_parse(date) THEN [selected EXCEPT !.status = "none"]
     ELSE IF keep = <<>> THEN [selected EXCEPT !.status = "none"]
     ELSE [selected EXCEPT
             !.status = "series",
             !.rows = [r \in 1..Len(keep) |->
                         [date |-> CellMonth(date.cells[keep[r]]),
                          value |-> to_numeric(value.cells[keep[r]])]]]

\* lines 74-100 for the selected columns: the rows with a date and a value,
\* sorted by date (by month: the day of a date is not carried); None when
\* the dates do not parse or no row is left.  When one column has both
\* roles, data[[c, c]] has two columns of one name and the conversion of
\* ts_data[c], a frame, fails in both attempts: None.
build_series(df, selected) ==
  LET date == ColumnNamed(df, selected.date_col)
      value == ColumnNamed(df, selected.value_col)
      keep == SelectIdx([i \in 1..len(df) |->
                           /\ CellMonth(date.cells[i]) # NaT
                           /\ to_numeric(value.cells[i]).k # "nan"],
                        1, len(df))
      key == [r \in 1..Len(keep) |-> CellMonth(date.cells[keep[r]])]
      order == SortRows(Len(keep), key)
  IN IF selected.date_col = selected.value_col THEN [selected EXCEPT !.status = "none"]
     ELSE IF ~series_dates_parse(date) THEN [selected EXCEPT !.status = "none"]
     ELSE IF keep = <<>> THEN [selected EXCEPT !.status = "none"]
     ELSE [selected EXCEPT
             !.status = "series",
             !.rows = [r \in 1..Len(keep) |->
                         [date |-> CellMonth(date.cells[keep[order[r]]]),
                          value |-> to_numeric(value.cells[keep[order[r]]])]]]

-----------------------------------------------------------------------------
(* The frames the specifications start from.                               *)

\* a numeric column is int64 while every cell is a finite number, else float64
NumericColumn(name, cells) ==
  Column(name,
         IF \A i \in DOMAIN cells : cells[i].k = "num" THEN "int64" ELSE "float64",
         cells)
ObjectColumn(name, cells) == Column(name, "object", cells)

DistinctNames(cols) ==
  \A a, b \in DOMAIN cols : a # b => cols[a].name # cols[b].name

\* result sets of the sales schema: any columns, in any order
PipeColumns(R) ==
  {NumericColumn("revenue", c) : c \in [1..R -> {Null, Num(1), Num(2)}]}
  \cup {ObjectColumn("customer_id", c) : c \in [1..R -> {Null, Str("c1"), Str("c2")}]}
  \cup {ObjectColumn("customer_country", c) : c \in [1..R -> {Null, Str("US")}]}
  \cup {ObjectColumn("product_name", c) : c \in [1..R -> {Null, Str("Widget")}]}
  \cup {ObjectColumn("order_date", c) :
          c \in [1..R -> {Str("2024-01-15"), Str("2024-02-15"), Str("n/a")}]}

\* frames for the quality scores: a numeric amount, a string column, a
\* numeric quantity, ...
QualNames == <<"amount", "customer_country", "qty", "notes", "net_amount">>

QualCells(j) ==
  CASE j % 4 = 1 -> {Null, Num(-1), Num(1)}
    [] j % 4 = 2 -> {Null, Str("US")}
    [] j % 4 = 3 -> {Null, Num(-1)}
    [] OTHER -> {Null, Str("n/a")}

QualColumns(R, j) ==
  {(IF j % 2 = 1 THEN NumericColumn(QualNames[j], c) ELSE ObjectColumn(QualNames[j], c)) :
     c \in [1..R -> QualCells(j)]}

RECURSIVE QualColumnSeqs(_, _)
QualColumnSeqs(R, C) ==
  IF C = 0 THEN {<<>>}
  ELSE {Append(p, col) : p \in QualColumnSeqs(R, C - 1), col \in QualColumns(R, C)}

\* one-row frames of many numeric columns, most of them amounts
WideNames == <<"amount", "qty", "Total_Amount", "tax_amount", "AMOUNT_USD",
               "net_amount", "amount_due", "Amount_Paid", "fee_amount">>

WideFrame(C, cells) ==
  Frame(1, [j \in 1..C |-> NumericColumn(WideNames[j], <<cells[j]>>)])

\* two-column frames of up to TallRows rows, each column nulls then values
TallFrame(R, k1, k2) ==
  Frame(R, <<NumericColumn("qty", [i \in 1..R |-> IF i <= k1 THEN Null ELSE Num(i)]),
             ObjectColumn("notes", [i \in 1..R |-> IF i <= k2 THEN Null ELSE Str("n/a")])>>)

\* frames for the recommendations: each column is k nulls, then values
NullsThen(R, k, v) == [i \in 1..R |-> IF i <= k THEN Null ELSE v]

RecFirstColumns(R) ==
  {NumericColumn("revenue", NullsThen(R, k, Num(1))) : k \in 0..R}
  \cup {ObjectColumn("order_date", NullsThen(R, k, Str("2024-01-15"))) : k \in 0..R}
  \cup {ObjectColumn("notes", NullsThen(R, k, Str("n/a"))) : k \in 0..R}

RecNames == <<"", "customer_country", "qty", "product_name">>

RecOtherColumn(R, j, k) ==
  IF j % 2 = 0 THEN ObjectColumn(RecNames[j], NullsThen(R, k, Str("US")))
  ELSE NumericColumn(RecNames[j], NullsThen(R, k, Num(2)))

RecFrame(R, C, first, ks) ==
  Frame(R, [j \in 1..C |-> IF j = 1 THEN first ELSE RecOtherColumn(R, j, ks[j])])

\* frames for the statistics: each column is one of a few series of R rows
StatNames == <<"qty", "price", "score", "tax", "weight">>

StatSeries(R) ==
  {[i \in 1..R |-> Num(i)],
   [i \in 1..R |-> Num(R + 1 - i)],
   [i \in 1..R |-> Num(2)],
   [i \in 1..R |-> Num(IF i % 2 = 1 THEN 1 ELSE 3)],
   [i \in 1..R |-> Num(IF i = R THEN 1 ELSE i + 1)],
   [i \in 1..R |-> IF i = 1 THEN Null ELSE Num(i * i)],
   [i \in 1..R |-> Null],
   [i \in 1..R |-> Str("n/a")]}

StatColumn(name, cells) ==
  IF \E i \in DOMAIN cells : cells[i].k = "str"
    THEN ObjectColumn(name, cells) ELSE NumericColumn(name, cells)

\* frames for the pattern detection: a date column of strings and a value
\* column, in either order or alone
DateSeries(R) ==
  {[i \in 1..R |-> Str(DayLabels[i])],
   [i \in 1..R |-> Str(DayLabels[R + 1 - i])],
   [i \in 1..R |-> Str("2024-01-20")],
   [i \in 1..R |-> IF i = R THEN Str("n/a") ELSE Str(DayLabels[i])],
   [i \in 1..R |-> IF i = 1 THEN Null ELSE Str(DayLabels[i])],
   [i \in 1..R |-> Str("n/a")]}

ValueSeries(R) ==
  {[i \in 1..R |-> Num(i)],
   [i \in 1..R |-> Num(R + 1 - i)],
   [i \in 1..R |-> Num(2)],
   [i \in 1..R |-> Num(0)],
   [i \in 1..R |-> Null],
   [i \in 1..R |-> IF i = 1 THEN Num(-1) ELSE Num(1)]}

\* one value per month over a year or more
YearSeries(R) ==
  {[i \in 1..R |-> Num(5)],
   [i \in 1..R |-> Num(0)],
   [i \in 1..R |-> Num(i)],
   [i \in 1..R |-> IF i = 1 THEN Num(9) ELSE Num(1)],
   [i \in 1..R |-> IF i = 1 THEN Num(21) ELSE Num(20)],
   [i \in 1..R |-> IF i = 2 THEN Null ELSE Num(5)],
   [i \in 1..R |-> IF i % 2 = 0 THEN Num(-3) ELSE Num(1)]}

Layouts == {"date, value", "value, date", "date", "value", "date, text"}

PatternFrame(R, layout, dates, values) ==
  LET date == ObjectColumn("order_date", dates)
      value == NumericColumn("revenue", values)
      text == ObjectColumn("notes", [i \in 1..R |-> Str("n/a")])
  IN Frame(R, CASE layout = "date, value" -> <<date, value>>
                [] layout = "value, date" -> <<value, date>>
                [] layout = "date" -> <<date>>
                [] layout = "value" -> <<value>>
                [] OTHER -> <<date, text>>)

\* frames for the time series preparation: a first column that may be the
\* date, and possibly a second column
ChartFirstColumns(R) ==
  {ObjectColumn("month", [i \in 1..R |-> Str(MonthLabels[i])]),
   ObjectColumn("label", [i \in 1..R |-> Str(MonthLabels[i])]),
   ObjectColumn("order_date", [i \in 1..R |-> Str(DayLabels[R + 1 - i])]),
   NumericColumn("year", [i \in 1..R |-> Num(2019 + i)]),
   NumericColumn("revenue", [i \in 1..R |-> Num(i)]),
   ObjectColumn("label", [i \in 1..R |-> Str("n/a")]),
   ObjectColumn("month", [i \in 1..R |-> IF i = R THEN Str("n/a") ELSE Str(MonthLabels[i])]),
   ObjectColumn("label", [i \in 1..R |-> IF i = R THEN Str("n/a") ELSE Str(MonthLabels[i])]),
   ObjectColumn("label", [i \in 1..R |-> IF i = 1 THEN Null ELSE Str(MonthLabels[i])]),
   ObjectColumn("period", [i \in 1..R |-> Null])}

ChartSecondColumns(R) ==
  {NumericColumn("revenue", [i \in 1..R |-> Num(R + 1 - i)]),
   NumericColumn("sales", [i \in 1..R |-> IF i = 1 THEN Num(3) ELSE Null]),
   ObjectColumn("qty", [i \in 1..R |-> IF i % 2 = 1 THEN Str("12") ELSE Str("7")]),
   ObjectColumn("notes", [i \in 1..R |-> Str("n/a")]),
   ObjectColumn("code", [i \in 1..R |-> IF i = 1 THEN Str("n/a") ELSE Str("12")]),
   NumericColumn("year", [i \in 1..R |-> Num(2020)])}

\* the table of the documented scenario: month strings from '2024-01' on and
\* a revenue from 1000 on, rising, falling or level
ScenarioFirstNames == {"month", "label"}

ScenarioRevenue(R) ==
  {[i \in 1..R |-> Num(999 + i)],
   [i \in 1..R |-> Num(1000 + R - i)],
   [i \in 1..R |-> Num(1000)]}

ScenarioFrame(R, name, revenue) ==
  Frame(R, <<ObjectColumn(name, [i \in 1..R |-> Str(MonthLabels[i])]),
             NumericColumn("revenue", revenue)>>)

\* the column of the documented outlier example
OutlierExample == <<Num(1), Num(2), Num(3), Num(4), Num(5), Num(100)>>

-----------------------------------------------------------------------------
(* analyze_data_step_by_step: the six stages in order, then the return.    *)

NoError == [exception |-> "none", line |-> 0]
NoReturn == [status |-> "pending"]

\* outside the application there is no st.session_state
NoSession == [status |-> "none"]

EmptyResults ==
  [steps |-> <<>>, insights |-> <<>>, recommendations |-> <<>>,
   data_quality |-> [status |-> "empty"], visualizations |-> <<>>]

\* the table analyze is given: a result set of the sales schema, which a
\* query may leave without rows (its columns keep their dtypes)
Init ==
  /\ \E R \in 0..PipeRows, C \in 1..PipeCols :
       \E cols \in [1..C -> PipeColumns(R)] :
         DistinctNames(cols) /\ data = Frame(R, cols)
  /\ pc = "step1"
  /\ analysis_results = EmptyResults
  /\ raised = NoError
  /\ ret = NoReturn
  /\ session_state = NoSession

DataOverview ==
  /\ pc = "step1"
  /\ analysis_results' =
       [analysis_results EXCEPT !.steps = Append(@, step_1_data_overview(data))]
  /\ pc' = "step2"
  /\ UNCHANGED <<data, raised, ret>>
  /\ UNCHANGED session_state

DataQuality ==
  /\ pc = "step2"
  /\ LET quality == step_2_data_quality(data)
     IN analysis_results' =
          [analysis_results EXCEPT !.steps = Append(@, quality),
                                   !.data_quality = quality.details]
  /\ pc' = "step3"
  /\ UNCHANGED <<data, raised, ret>>
  /\ UNCHANGED session_state

StatisticalAnalysis ==
  /\ pc = "step3"
  /\ analysis_results' =
       [analysis_results EXCEPT !.steps = Append(@, step_3_statistical_analysis(data))]
  /\ pc' = "step4"
  /\ UNCHANGED <<data, raised, ret>>
  /\ UNCHANGED session_state

\* an exception of a stage is caught nowhere: it leaves analyze_data_step_by_step
PatternDetection ==
  /\ pc = "step4"
  /\ LET patterns == step_4_pattern_detection(data)
     IN IF IsRaise(patterns)
          THEN /\ raised' = patterns
               /\ pc' = "raised"
               /\ UNCHANGED analysis_results
          ELSE /\ analysis_results' =
                    [analysis_results EXCEPT !.steps = Append(@, patterns.value)]
               /\ pc' = "step5"
               /\ UNCHANGED raised
  /\ data' = step_4_tables(data).data
  /\ UNCHANGED ret
  /\ UNCHANGED session_state

BusinessIntelligence ==
  /\ pc = "step5"
  /\ LET business_intel == step_5_business_intelligence(data)
     IN IF IsRaise(business_intel)
          THEN /\ raised' = business_intel
               /\ pc' = "raised"
               /\ UNCHANGED analysis_results
          ELSE /\ analysis_results' =
                    [analysis_results EXCEPT !.steps = Append(@, business_intel.value),
                                             !.insights = business_intel.value.insights]
               /\ pc' = "step6"
               /\ UNCHANGED raised
  /\ UNCHANGED <<data, ret>>
  /\ UNCHANGED session_state

Recommendations ==
  /\ pc = "step6"
  /\ LET recommendations == step_6_recommendations(data)
     IN analysis_results' =
          [analysis_results EXCEPT !.steps = Append(@, recommendations),
                                   !.recommendations = recommendations.recommendations]
  /\ pc' = "return"
  /\ UNCHANGED <<data, raised, ret>>
  /\ UNCHANGED session_state

Return ==
  /\ pc = "return"
  /\ ret' = analysis_results
  /\ pc' = "done"
  /\ UNCHANGED <<data, analysis_results, raised>>
  /\ UNCHANGED session_state

Next ==
  \/ DataOverview
  \/ DataQuality
  \/ StatisticalAnalysis
  \/ PatternDetection
  \/ BusinessIntelligence
  \/ Recommendations
  \/ Return

Spec == Init /\ [][Next]_vars

-----------------------------------------------------------------------------
(* Direct calls of one stage, as the tests of the stage make them.         *)

InitQuality ==
  /\ \E shape \in {"narrow", "wide", "tall"} :
       IF shape = "narrow"
         THEN \E R \in 1..QualRows, C \in 1..QualCols :
                \E cols \in QualColumnSeqs(R, C) : data = Frame(R, cols)
         ELSE IF shape = "tall"
         THEN \E R \in 1..TallRows : \E k1, k2 \in 0..R : data = TallFrame(R, k1, k2)
         ELSE \E C \in 1..WideCols :
                \E cells \in [1..C -> {Num(1), Num(-1), PosInf, NegInf}] :
                  data = WideFrame(C, cells)
  /\ pc = "call"
  /\ analysis_results = EmptyResults
  /\ raised = NoError
  /\ ret = NoReturn
  /\ session_state = NoSession

CallDataQuality ==
  /\ pc = "call"
  /\ ret' = step_2_data_quality(data)
  /\ pc' = "done"
  /\ UNCHANGED <<data, analysis_results, raised>>
  /\ UNCHANGED session_state

SpecQuality == InitQuality /\ [][CallDataQuality]_vars

InitRecommend ==
  /\ \E R \in 1..RecRows, C \in 1..RecCols :
       \E first \in RecFirstColumns(R), ks \in [1..C -> 0..R] :
         data = RecFrame(R, C, first, ks)
  /\ pc = "call"
  /\ analysis_results = EmptyResults
  /\ raised = NoError
  /\ ret = NoReturn
  /\ session_state = NoSession

CallRecommendations ==
  /\ pc = "call"
  /\ ret' = step_6_recommendations(data)
  /\ pc' = "done"
  /\ UNCHANGED <<data, analysis_results, raised>>
  /\ UNCHANGED session_state

SpecRecommend == InitRecommend /\ [][CallRecommendations]_vars

InitStatistics ==
  /\ \E shape \in {"series", "example"} :
       IF shape = "series"
         THEN \E R \in 1..StatRows, C \in 1..StatCols :
                \E series \in [1..C -> StatSeries(R)] :
                  data = Frame(R, [j \in 1..C |-> StatColumn(StatNames[j], series[j])])
         ELSE \E C \in 1..2 :
                data = Frame(6, [j \in 1..C |->
                                   IF j = 1 THEN NumericColumn("value", OutlierExample)
                                   ELSE ObjectColumn("notes", [i \in 1..6 |-> Str("n/a")])])
  /\ pc = "call"
  /\ analysis_results = EmptyResults
  /\ raised = NoError
  /\ ret = NoReturn
  /\ session_state = NoSession

CallStatisticalAnalysis ==
  /\ pc = "call"
  /\ ret' = step_3_statistical_analysis(data)
  /\ pc' = "done"
  /\ UNCHANGED <<data, analysis_results, raised>>
  /\ UNCHANGED session_state

SpecStatistics == InitStatistics /\ [][CallStatisticalAnalysis]_vars

InitPattern ==
  /\ \E shape \in {"short", "year"} :
       IF shape = "short"
         THEN \E R \in 1..PatternRows, layout \in Layouts :
                \E dates \in DateSeries(R), values \in ValueSeries(R) :
                  data = PatternFrame(R, layout, dates, values)
         ELSE \E R \in 11..SeasonMonths, layout \in {"date, value", "value, date"} :
                \E values \in YearSeries(R) :
                  data = PatternFrame(R, layout, [i \in 1..R |-> Str(DayLabels[i])], values)
  /\ pc = "call"
  /\ analysis_results = EmptyResults
  /\ raised = NoError
  /\ ret = NoReturn
  /\ session_state = NoSession

\* ret is the outcome of the call: the report, or the exception it raised
CallPatternDetection ==
  /\ pc = "call"
  /\ ret' = step_4_pattern_detection(data)
  /\ data' = step_4_tables(data).data
  /\ pc' = "done"
  /\ UNCHANGED <<analysis_results, raised>>
  /\ UNCHANGED session_state

SpecPattern == InitPattern /\ [][CallPatternDetection]_vars

-----------------------------------------------------------------------------
(* A call of prepare_time_series_data: the columns are selected, then the  *)
(* series is built; ret holds the selection and then the result.           *)

InitChart ==
  /\ \E R \in 0..ChartRows :
       \E first \in ChartFirstColumns(R) :
         \/ data = Frame(R, <<first>>)
         \/ \E second \in ChartSecondColumns(R) :
              first.name # second.name /\ data = Frame(R, <<first, second>>)
  /\ pc = "prepare"
  /\ analysis_results = EmptyResults
  /\ raised = NoError
  /\ ret = NoReturn
  /\ session_state = NoSession

SelectColumns ==
  /\ pc = "prepare"
  /\ ret' = select_columns(data)
  /\ pc' = IF select_columns(data).status = "none" THEN "done" ELSE "build"
  /\ UNCHANGED <<data, analysis_results, raised>>
  /\ UNCHANGED session_state

BuildSeries ==
  /\ pc = "build"
  /\ ret' = build_series(data, ret)
  /\ pc' = "done"
  /\ UNCHANGED <<data, analysis_results, raised>>
  /\ UNCHANGED session_state

NextChart == SelectColumns \/ BuildSeries

SpecChart == InitChart /\ [][NextChart]_vars

\* the documented scenario: the pattern step runs on the table, then the
\* table is prepared for the chart
InitScenario ==
  /\ \E R \in 2..ScenarioRows :
       \E name \in ScenarioFirstNames, revenue \in ScenarioRevenue(R) :
         data = ScenarioFrame(R, name, revenue)
  /\ pc = "detect"
  /\ analysis_results = EmptyResults
  /\ raised = NoError
  /\ ret = NoReturn
  /\ session_state = NoSession

DetectPatterns ==
  /\ pc = "detect"
  /\ LET patterns == step_4_pattern_detection(data)
     IN IF IsRaise(patterns)
          THEN /\ raised' = patterns
               /\ pc' = "raised"
               /\ UNCHANGED analysis_results
          ELSE /\ analysis_results' =
                    [analysis_results EXCEPT !.steps = Append(@, patterns.value)]
               /\ pc' = "prepare"
               /\ UNCHANGED raised
  /\ data' = step_4_tables(data).data
  /\ UNCHANGED ret
  /\ UNCHANGED session_state

NextScenario == DetectPatterns \/ SelectColumns \/ BuildSeries

SpecScenario == InitScenario /\ [][NextScenario]_vars

-----------------------------------------------------------------------------
(* Properties of the pipeline.                                             *)

NonDegenerate(df) == len(df) >= 1 /\ NCols(df) >= 1

StepNumbers(steps) == [i \in 1..Len(steps) |-> steps[i].step_number]

\* C1: for every table with at least one row and one column, analyze never
\* raises and returns a report whose steps are numbered 1, 2, 3, 4, 5, 6 in
\* that order.
C1_AnalyzeReturnsSixSteps ==
  NonDegenerate(data) =>
    /\ pc # "raised"
    /\ pc = "done" => StepNumbers(ret.steps) = <<1, 2, 3, 4, 5, 6>>

\* the stage about to run fails on this table
StageFails ==
  \/ pc = "step4" /\ IsRaise(step_4_pattern_detection(data))
  \/ pc = "step5" /\ IsRaise(step_5_business_intelligence(data))

\* C2: a failure inside one stage is caught at the stage boundary: the stage
\* is recorded as a completed step and the pipeline goes on to the next
\* stage instead of leaving analyze.
C2_StageFailureIsolated ==
  [][StageFails =>
       /\ Len(analysis_results'.steps) = Len(analysis_results.steps) + 1
       /\ analysis_results'.steps[Len(analysis_results'.steps)].status = "completed"
       /\ pc' \in {"step5", "step6"}]_vars

\* C3: the insight list of the report has at most 5 entries, however many of
\* the revenue, customer, geographic and product rules are eligible.
C3_InsightsAtMostFive ==
  Len(analysis_results.insights) <= 5

-----------------------------------------------------------------------------
(* Properties of the recommendations (SpecRecommend).                      *)

\* the cells of a frame, and its null cells, counted cell by cell
AllCells(df) == {<<j, i>> : j \in 1..NCols(df), i \in 1..len(df)}
NullCellSet(df) == {c \in AllCells(df) : df.cols[c[1]].cells[c[2]].k = "null"}

HasRecommendation(recs, category, priority) ==
  \E i \in 1..Len(recs) : recs[i].category = category /\ recs[i].priority = priority

\* C4: the recommendations hold a High-priority 'Data Quality' entry exactly
\* when more than 10% of the cells of the table are null.
C4_DataQualityIffOverTenPercent ==
  pc = "done" =>
    (HasRecommendation(ret.recommendations, "Data Quality", "High")
       <=> 10 * Cardinality(NullCellSet(data)) > Cardinality(AllCells(data)))

C4_Witness ==
  /\ pc = "done"
  /\ HasRecommendation(ret.recommendations, "Data Quality", "High")
  /\ 10 * Cardinality(NullCellSet(data)) = Cardinality(AllCells(data)) + 10

\* C5: the recommendations hold exactly one 'Process Automation' entry, of
\* priority Low, and it is the last entry of the list.
C5_ProcessAutomationIsTail ==
  pc = "done" =>
    LET recs == ret.recommendations
    IN /\ Len(recs) >= 1
       /\ recs[Len(recs)] = [category |-> "Process Automation", priority |-> "Low"]
       /\ Cardinality({i \in 1..Len(recs) : recs[i].category = "Process Automation"}) = 1

C5_Witness ==
  /\ pc = "done"
  /\ Len(ret.recommendations) = 4
  /\ ret.recommendations[4].category = "Process Automation"

-----------------------------------------------------------------------------
(* Properties of the quality scores (SpecQuality).                         *)

\* the frame with one cell replaced by null (an int64 column becomes float64)
WithNull(df, j, i) ==
  [df EXCEPT !.cols[j] =
     Column(@.name,
            IF @.dtype = "int64" THEN "float64" ELSE @.dtype,
            [@.cells EXCEPT ![i] = Null])]

Completeness(df) == step_2_data_quality(df).details.completeness.score

C7_CompletenessMonotone ==
  pc = "done" =>
    \A c \in AllCells(data) \ NullCellSet(data) :
      FracLe(Completeness(WithNull(data, c[1], c[2])), ret.details.completeness.score)

C7_Witness ==
  /\ pc = "done"
  /\ NullCellSet(data) # {}
  /\ \E c \in AllCells(data) \ NullCellSet(data) :
       FracLt(Completeness(WithNull(data, c[1], c[2])), ret.details.completeness.score)

\* the rows that repeat an earlier row, compared cell by cell
RepeatedRows(df) ==
  {i \in 1..len(df) :
     \E e \in 1..len(df) :
       e < i /\ \A j \in 1..NCols(df) : df.cols[j].cells[e] = df.cols[j].cells[i]}

AmountNamed ==
  {"amount", "Total_Amount", "tax_amount", "AMOUNT_USD", "net_amount",
   "amount_due", "Amount_Paid", "fee_amount"}

NumericPositions(df) == {j \in 1..NCols(df) : df.cols[j].dtype \in {"int64", "float64"}}

\* the validity issues of a frame: one per numeric column holding an infinite
\* value, one per numeric amount column holding a negative value
IssueCount(df) ==
  Cardinality({j \in NumericPositions(df) :
                 \E i \in 1..len(df) : df.cols[j].cells[i].k = "inf"})
  + Cardinality({j \in NumericPositions(df) :
                   /\ df.cols[j].name \in AmountNamed
                   /\ \E i \in 1..len(df) :
                        \/ df.cols[j].cells[i] = NegInf
                        \/ df.cols[j].cells[i].k = "num" /\ df.cols[j].cells[i].v < 0})

\* C9: the validity score is max(0, 100 - 10 * n) for n detected issues, and
\* never below 0.
C9_ValidityFlooredPenalty ==
  pc = "done" =>
    LET n == IssueCount(data)
        score == ret.details.validity.score
    IN /\ score >= 0
       /\ score = (IF 10 * n >= 100 THEN 0 ELSE 100 - 10 * n)
       /\ Len(ret.details.validity.issues) = n

C9_Witness ==
  /\ pc = "done"
  /\ IssueCount(data) > 10
  /\ ret.details.validity.score = 0

\* C10: the overall score of a report is the unweighted mean of its own
\* completeness, consistency and validity scores.
C10_OverallIsMean ==
  pc = "done" =>
    LET d == ret.details
        c == d.completeness.score
        s == d.consistency.score
        v == d.validity.score
        o == d.overall_score
    IN /\ o.d > 0
       /\ 3 * o.n * c.d * s.d = o.d * (c.n * s.d + s.n * c.d + v * c.d * s.d)

C10_Witness ==
  /\ pc = "done"
  /\ FracLt(ret.details.completeness.score, ret.details.consistency.score)
  /\ FracLt(ret.details.consistency.score, Whole(ret.details.validity.score))
  /\ FracLt(ret.details.completeness.score, ret.details.overall_score)
  /\ FracLt(ret.details.overall_score, Whole(ret.details.validity.score))

\* C17: the table the caller passed is never changed by a run: after every
\* stage, and when analyze returns or raises, it has the same columns, names,
\* row order and cells; conversions, sorting and helper columns go to the
\* working copy of step 4.
C17_InputTableUnchanged ==
  [][data' = data]_vars

C17_Witness ==
  /\ pc = "step5"
  /\ Len(analysis_results.steps) = 4
  /\ len(data) = 2
  /\ NCols(step_4_tables(data).temp_data) = NCols(data) + 1
  /\ step_4_tables(data).temp_data.cols[1].cells[1] # data.cols[1].cells[1]
  /\ \E j \in 1..NCols(data) :
       data.cols[j].name = "order_date"
         /\ CellMonth(data.cols[j].cells[1]) > CellMonth(data.cols[j].cells[2])

\* C18: only malformed input makes analyze raise: a table without rows (or
\* without columns) is rejected with MalformedInputError before stage 1
\* produces anything, and no other error type leaves analyze.
C18_OnlyMalformedInputRaises ==
  /\ pc = "raised" => raised.exception = "MalformedInputError"
  /\ (len(data) = 0 \/ NCols(data) = 0) =>
       /\ pc \in {"step1", "raised"}
       /\ analysis_results.steps = <<>>

-----------------------------------------------------------------------------
(* Properties of the quality report inside the pipeline.                   *)

\* a float64 score that is a number between 0 and 100 (NaN is not)
IsPercentage(x) == x.d > 0 /\ 0 <= x.n /\ x.n <= 100 * x.d

\* C11: in every quality report the quality step produces, the completeness,
\* consistency, validity and overall scores are percentages within [0, 100].
C11_ScoresArePercentages ==
  pc \notin {"step1", "step2"} =>
    LET q == analysis_results.data_quality
    IN /\ IsPercentage(q.completeness.score)
       /\ IsPercentage(q.consistency.score)
       /\ 0 <= q.validity.score /\ q.validity.score <= 100
       /\ IsPercentage(q.overall_score)

\* the completeness texts of a report, among its strengths and its issues
CompletenessTexts(details) ==
  [strengths |-> {i \in 1..Len(details.strengths) :
                    details.strengths[i] \in {"Excellent data completeness",
                                              "Good data completeness"}},
   issues |-> {i \in 1..Len(details.issues) :
                 details.issues[i].text = "Data has significant missing values"}]

HasStrength(details, text) == \E i \in 1..Len(details.strengths) : details.strengths[i] = text

\* C20 as stated: completeness > 95 adds the 'excellent' strength,
\* completeness from 85 (included) to 95 adds the 'good' strength,
\* completeness < 85 adds the missing-values issue, and a report holds
\* exactly one of the three texts.
C20_TextsWithEightyFiveGood ==
  pc = "done" =>
    LET total == Cardinality(AllCells(data))
        present == total - Cardinality(NullCellSet(data))
        texts == CompletenessTexts(ret.details)
    IN /\ Cardinality(texts.strengths) + Cardinality(texts.issues) = 1
       /\ 100 * present > 95 * total => HasStrength(ret.details, "Excellent data completeness")
       /\ (100 * present >= 85 * total /\ 100 * present <= 95 * total)
            => HasStrength(ret.details, "Good data completeness")
       /\ 100 * present < 85 * total => texts.issues # {}

\* C20 as amended: completeness > 95 adds the 'excellent' strength,
\* completeness above 85 and up to 95 adds the 'good' strength, completeness
\* of 85 or less adds the missing-values issue, and a report holds exactly
\* one of the three texts.
C20_TextsWithEightyFiveIssue ==
  pc = "done" =>
    LET total == Cardinality(AllCells(data))
        present == total - Cardinality(NullCellSet(data))
        texts == CompletenessTexts(ret.details)
    IN /\ Cardinality(texts.strengths) + Cardinality(texts.issues) = 1
       /\ 100 * present > 95 * total => HasStrength(ret.details, "Excellent data completeness")
       /\ (100 * present > 85 * total /\ 100 * present <= 95 * total)
            => HasStrength(ret.details, "Good data completeness")
       /\ 100 * present <= 85 * total => texts.issues # {}

C20_Witness ==
  /\ pc = "done"
  /\ 100 * (Cardinality(AllCells(data)) - Cardinality(NullCellSet(data)))
       = 85 * Cardinality(AllCells(data))
  /\ ret.details.strengths = <<>>
  /\ ret.details.issues[1].text = "Data has significant missing values"

-----------------------------------------------------------------------------
(* Properties of the statistics (SpecStatistics).                          *)

\* the positions of the numeric columns of a frame
NumericSet(df) == {j \in 1..NCols(df) : df.cols[j].dtype \in {"int64", "float64"}}

\* sums over the rows where both columns hold a number
BothRows(df, a, b) ==
  {i \in 1..len(df) : df.cols[a].cells[i].k = "num" /\ df.cols[b].cells[i].k = "num"}

RECURSIVE SumOver(_, _)
SumOver(S, f) ==
  IF S = {} THEN 0 ELSE LET i == CHOOSE x \in S : TRUE IN f[i] + SumOver(S \ {i}, f)

\* Pearson's |r| > 0.7 from the deviations about the means, scaled by the
\* number of rows: (sum dx dy)^2 * 100 > 49 * (sum dx^2) * (sum dy^2)
PearsonAbove(df, a, b) ==
  LET rows == BothRows(df, a, b)
      n == Cardinality(rows)
      x == [i \in rows |-> df.cols[a].cells[i].v]
      y == [i \in rows |-> df.cols[b].cells[i].v]
      dx == [i \in rows |-> n * x[i] - SumOver(rows, x)]
      dy == [i \in rows |-> n * y[i] - SumOver(rows, y)]
      sxy == SumOver(rows, [i \in rows |-> dx[i] * dy[i]])
      sxx == SumOver(rows, [i \in rows |-> dx[i] * dx[i]])
      syy == SumOver(rows, [i \in rows |-> dy[i] * dy[i]])
  IN sxx > 0 /\ syy > 0 /\ 100 * sxy * sxy > 49 * sxx * syy

Listed(corrs, v1, v2) ==
  {e \in 1..Len(corrs) : corrs[e].var1 = v1 /\ corrs[e].var2 = v2}

\* C12: a pair of numeric columns is listed as a strong correlation exactly
\* when it is an upper-triangle pair (first column before second) with
\* |r| > 0.7; no unordered pair is listed twice and no column is paired with
\* itself.
C12_StrongPairsAreUpperTriangle ==
  pc = "done" =>
    LET corrs == ret.details.strong_correlations
    IN /\ \A a, b \in NumericSet(data) :
            /\ Listed(corrs, data.cols[a].name, data.cols[b].name) # {}
                 <=> (a < b /\ PearsonAbove(data, a, b))
            /\ Cardinality(Listed(corrs, data.cols[a].name, data.cols[b].name)
                             \cup Listed(corrs, data.cols[b].name, data.cols[a].name)) <= 1
       /\ \A e \in 1..Len(corrs) :
            /\ corrs[e].var1 # corrs[e].var2
            /\ \E a, b \in NumericSet(data) :
                 corrs[e].var1 = data.cols[a].name /\ corrs[e].var2 = data.cols[b].name

C12_Witness ==
  /\ pc = "done"
  /\ Cardinality(NumericSet(data)) = 3
  /\ Len(ret.details.strong_correlations) = 1
  /\ ret.details.strong_correlations[1].var1 = "qty"
  /\ ret.details.strong_correlations[1].var2 = "score"
  /\ ret.details.strong_correlations[1].correlation.cov < 0

\* C13: for the column [1, 2, 3, 4, 5, 100] the quartiles are Q1 = 2.25 and
\* Q3 = 4.75, the IQR is 2.5, the upper bound is 8.5 and 100 is the only
\* value flagged as an outlier.
C13_OutlierExample ==
  (pc = "done" /\ data.cols[1].cells = OutlierExample) =>
    LET col == data.cols[1]
        out == ret.details.outliers[1]
    IN /\ quantile4(col, 1) = 9
       /\ quantile4(col, 3) = 19
       /\ IQR4(col) = 10
       /\ out.upper_bound.d > 0 /\ 2 * out.upper_bound.n = 17 * out.upper_bound.d
       /\ out.lower_bound.d > 0 /\ 2 * out.lower_bound.n = -3 * out.lower_bound.d
       /\ out.count = 1
       /\ {i \in 1..6 : \/ 2 * col.cells[i].v * out.upper_bound.d > 2 * out.upper_bound.n
                          \/ 2 * col.cells[i].v * out.lower_bound.d < 2 * out.lower_bound.n}
            = {6}

C13_Witness ==
  /\ pc = "done"
  /\ data.cols[1].cells = OutlierExample
  /\ ret.details.outliers[1].count = 1
  /\ ret.details.outliers[1].col = "value"

-----------------------------------------------------------------------------
(* Properties of the pattern detection (SpecPattern).                      *)

\* the columns of date strings and the columns of numbers of a frame
DateStringColumns(df) ==
  {j \in 1..NCols(df) :
     /\ df.cols[j].dtype = "object"
     /\ \E i \in 1..len(df) : df.cols[j].cells[i].k = "str"
     /\ \A i \in 1..len(df) :
          df.cols[j].cells[i].k = "str" => ParseDate(df.cols[j].cells[i].s) >= 0}

\* the calendar months (year, month) the dates of a column fall in
MonthsOf(col) ==
  {ParseDate(col.cells[i].s) : i \in {r \in DOMAIN col.cells : col.cells[r].k = "str"}}

\* the rows of a month of the year (0 = January) that hold a value
YearMonthRows(df, d, v, m) ==
  {i \in 1..len(df) :
     /\ df.cols[d].cells[i].k = "str"
     /\ ParseDate(df.cols[d].cells[i].s) % 12 = m
     /\ df.cols[v].cells[i].k = "num"}

\* std / mean > 0.1 for the means of the months of the year, std with n - 1:
\* with the means m[g] = t[g] / c[g] brought over the denominator 4 (no
\* month of the year holds more than 2 rows here) and k of them,
\* 100 * k * (k * sum(m^2) - sum(m)^2) > (k - 1) * sum(m)^2, sum(m) > 0
VariationAboveTenth(df, d, v) ==
  LET live == {m \in 0..11 : YearMonthRows(df, d, v, m) # {}}
      k == Cardinality(live)
      mean4 == [m \in live |->
                  (4 * SumOver(YearMonthRows(df, d, v, m),
                               [i \in 1..len(df) |-> df.cols[v].cells[i].v]))
                    \div Cardinality(YearMonthRows(df, d, v, m))]
      S == SumOver(live, mean4)
      Q == SumOver(live, [m \in live |-> mean4[m] * mean4[m]])
  IN /\ k > 1
     /\ \/ S > 0 /\ 100 * k * (k * Q - S * S) > (k - 1) * S * S
        \/ S = 0 /\ Q > 0

\* C14: a seasonality record is emitted only when the dates fall in at least
\* 12 monthly buckets and std / mean of the month-of-year means is above
\* 0.1; at most one record is emitted; a constant value over 12 or more
\* months yields none.
C14_SeasonalityNeedsYearAndVariation ==
  (pc = "done" /\ ~IsRaise(ret)) =>
    LET seasonal == ret.value.details.seasonal_patterns
    IN /\ Len(seasonal) <= 1
       /\ Len(seasonal) = 1 =>
            \E d \in DateStringColumns(data), v \in NumericSet(data) :
              /\ Cardinality(MonthsOf(data.cols[d])) >= 12
              /\ VariationAboveTenth(data, d, v)
              /\ seasonal[1].metric = data.cols[v].name
       /\ \A d \in DateStringColumns(data), v \in NumericSet(data) :
            (/\ Cardinality(MonthsOf(data.cols[d])) >= 12
             /\ \E c \in 0..9 : \A i \in 1..len(data) : data.cols[v].cells[i] = Num(c))
              => seasonal = <<>>

C14_Witness ==
  /\ pc = "done"
  /\ ~IsRaise(ret)
  /\ len(data) = 12
  /\ Len(ret.value.details.seasonal_patterns) = 1
  /\ data.cols[2].cells[1] = Num(9)

\* no column of date strings, or no numeric column
NoDateOrNoNumeric(df) == DateStringColumns(df) = {} \/ NumericSet(df) = {}

\* C15: the pattern step never raises; without a date column or without a
\* numeric column its growth_trends and seasonal_patterns are both empty,
\* and for any other table (a later row of the date column that does not
\* parse included) it returns a report.
C15_PatternStepNeverRaises ==
  pc = "done" =>
    /\ ~IsRaise(ret)
    /\ NoDateOrNoNumeric(data) =>
         /\ ret.value.details.growth_trends = <<>>
         /\ ret.value.details.seasonal_patterns = <<>>

-----------------------------------------------------------------------------
(* Properties of the column roles (SpecChart, SpecScenario).               *)

\* C16: every column has exactly one role: no column is in both the date
\* columns and the numeric columns, so the date column and the value column
\* selected for the time series are two different columns.
C16_DateAndValueColumnsDiffer ==
  pc = "build" =>
    /\ Range(ret.date_columns) \cap Range(ret.numeric_columns) = {}
    /\ ret.date_col # ret.value_col

\* the pattern step emitted exactly one growth record, of positive average
\* growth and direction 'increasing'
OneIncreasingTrend(report) ==
  /\ Len(report.details.growth_trends) = 1
  /\ report.details.growth_trends[1].metric = "revenue"
  /\ report.details.growth_trends[1].average_monthly_growth.k = "fin"
  /\ report.details.growth_trends[1].average_monthly_growth.n > 0
  /\ report.details.growth_trends[1].trend_direction = "increasing"

\* the table of 24 months '2024-01'..'2025-12' and revenue 1000..1023
IsScenarioTable(df) ==
  /\ len(df) = 24
  /\ df.cols[1].name = "month"
  /\ \A i \in 1..24 : df.cols[2].cells[i] = Num(999 + i)

\* C19 as stated: for the 24-row table of month strings and revenue
\* 1000..1023, month is the date column through the first-column fallback,
\* revenue is the numeric column, and the pattern step emits exactly one
\* growth record, positive and 'increasing'.
C19_ScenarioViaFallback ==
  (pc = "done" /\ IsScenarioTable(data)) =>
    /\ ret.date_columns = <<"month">>
    /\ ret.via = "first-column fallback"
    /\ ret.numeric_columns = <<"revenue">>
    /\ OneIncreasingTrend(analysis_results.steps[1])

\* C19 as amended: month is the date column because its name holds the word
\* 'month' and its sample parses (the first-column fallback is not
\* consulted), revenue is the numeric column, and the pattern step emits
\* exactly one growth record, positive and 'increasing'.
C19_ScenarioViaName ==
  (pc = "done" /\ IsScenarioTable(data)) =>
    /\ ret.date_columns = <<"month">>
    /\ ret.via = "name"
    /\ ret.numeric_columns = <<"revenue">>
    /\ ret.status = "series"
    /\ OneIncreasingTrend(analysis_results.steps[1])

C19_Witness ==
  /\ pc = "done"
  /\ IsScenarioTable(data)
  /\ ret.status = "series"
  /\ Len(ret.rows) = 24
  /\ Len(analysis_results.steps) = 1
  /\ analysis_results.steps[1].details.growth_trends[1].trend_direction = "increasing"


-----------------------------------------------------------------------------
(* Properties of the growth trend (SpecPattern).                           *)

\* the sum of a numeric column over the rows whose date falls in month m
MonthSum(df, d, v, m) ==
  SumOver({i \in 1..len(df) :
             /\ df.cols[d].cells[i].k = "str"
             /\ ParseDate(df.cols[d].cells[i].s) = m
             /\ df.cols[v].cells[i].k = "num"},
          [i \in 1..len(df) |-> df.cols[v].cells[i].v])

\* the month-over-month change s2 / s1 - 1 of two monthly sums is above zero
ChangeAboveZero(s1, s2) ==
  \/ s1 > 0 /\ s2 > s1
  \/ s1 < 0 /\ s2 < s1
  \/ s1 = 0 /\ s2 > 0

\* the months the cells of a column convert to
ConvertedMonths(col) == {CellMonth(col.cells[i]) : i \in DOMAIN col.cells} \ {NaT}

\* C21: a growth-trend record is emitted only if the detected date column
\* falls in at least 2 monthly buckets; at most one record is emitted; its
\* direction is 'increasing' exactly when the average month-over-month
\* percent change is above zero and 'decreasing' otherwise (for two months
\* of sums: exactly when the second sum is a growth over the first).
C21_GrowthTrendNeedsTwoMonths ==
  (pc = "done" /\ ~IsRaise(ret)) =>
    LET growth == ret.value.details.growth_trends
    IN /\ Len(growth) <= 1
       /\ Len(growth) = 1 =>
            /\ \E d \in DateStringColumns(data) \cup NumericSet(data) :
                 Cardinality(ConvertedMonths(data.cols[d])) >= 2
            /\ NumericSet(data) # {}
            /\ growth[1].trend_direction \in {"increasing", "decreasing"}
            /\ growth[1].trend_direction = "increasing"
                 <=> XSign(growth[1].average_monthly_growth) = 1
       /\ (/\ NCols(data) = 2
           /\ 1 \in DateStringColumns(data)
           /\ 2 \in NumericSet(data)
           /\ Cardinality(MonthsOf(data.cols[1])) = 2) =>
            LET m1 == CHOOSE m \in MonthsOf(data.cols[1]) :
                        \A o \in MonthsOf(data.cols[1]) : m <= o
                m2 == CHOOSE m \in MonthsOf(data.cols[1]) : m # m1
            IN /\ Len(growth) = 1
               /\ growth[1].metric = data.cols[2].name
               /\ growth[1].trend_direction = "increasing"
                    <=> ChangeAboveZero(MonthSum(data, 1, 2, m1), MonthSum(data, 1, 2, m2))

C21_Witness ==
  /\ pc = "done"
  /\ ~IsRaise(ret)
  /\ 1 \in DateStringColumns(data)
  /\ Cardinality(MonthsOf(data.cols[1])) >= 3
  /\ Len(ret.value.details.growth_trends) = 1
  /\ ret.value.details.growth_trends[1].trend_direction = "increasing"

-----------------------------------------------------------------------------
(* Properties of the insight order (Spec).                                 *)

\* the category an insight belongs to: 1 revenue, 2 customer, 3 geographic,
\* 4 product
CategoryOf(kind) ==
  CASE kind \in {"Total", "Average transaction value",
                 "High-value transactions (top 20%)"} -> 1
    [] kind \in {"Total unique customers", "Average transactions per customer"} -> 2
    [] kind \in {"Top market by volume", "Top market by revenue"} -> 3
    [] OTHER -> 4

\* the categories of the insights a table is eligible for, in priority order
EligibleCategories(df) ==
  (IF \E j \in NumericSet(df) : IsRevenueName(df.cols[j].name)
     THEN <<1, 1, 1>> ELSE <<>>)
  \o (IF \E j \in 1..NCols(df) : df.cols[j].name \in {"customer_name", "customer_id"}
        THEN <<2, 2>> ELSE <<>>)
  \o (IF \E j \in 1..NCols(df) : df.cols[j].name = "customer_country"
        THEN <<3, 3>> ELSE <<>>)
  \o (IF \E j \in 1..NCols(df) : df.cols[j].name = "product_name"
        THEN <<4>> ELSE <<>>)

\* C22: the insights of the report are the first 5 of the sequence revenue
\* (total, average, high-value count), customer, geographic, product: the
\* categories appear in that order and what lies beyond the fifth is dropped.
C22_InsightsAreFirstFiveInOrder ==
  pc \in {"step6", "return", "done"} =>
    LET insights == analysis_results.insights
        eligible == EligibleCategories(data)
    IN [i \in 1..Len(insights) |-> CategoryOf(insights[i].kind)]
         = SubSeq(eligible, 1, Min(5, Len(eligible)))

-----------------------------------------------------------------------------
(* Properties of the monitoring recommendation (SpecRecommend).            *)

\* the columns taken as dates: the first five values all convert (a number
\* converts, a string has to parse)
DateDetected(df) ==
  {j \in 1..NCols(df) :
     \A i \in 1..len(df) :
       (i <= 5 /\ df.cols[j].cells[i].k = "str") => ParseDate(df.cols[j].cells[i].s) >= 0}

\* C23 as stated: the Medium 'Performance Monitoring' recommendation is
\* emitted exactly when the table has a date column, with or without a
\* numeric column.
C23_MonitoringIffDateColumn ==
  pc = "done" =>
    (HasRecommendation(ret.recommendations, "Performance Monitoring", "Medium")
       <=> DateDetected(data) # {})

\* C23 amended: the Medium 'Performance Monitoring' recommendation is
\* emitted exactly when the table has at least one numeric column and a
\* date column; a table with a date column and no numeric column gets none.
C23_MonitoringIffNumericAndDate ==
  pc = "done" =>
    /\ HasRecommendation(ret.recommendations, "Performance Monitoring", "Medium")
         <=> (NumericSet(data) # {} /\ DateDetected(data) # {})
    /\ \A e \in 1..Len(ret.recommendations) :
         ret.recommendations[e].category = "Performance Monitoring"
           => ret.recommendations[e].priority = "Medium"

C23_Witness ==
  /\ pc = "done"
  /\ NCols(data) = 2
  /\ data.cols[1].name = "order_date"
  /\ DateDetected(data) = {1}
  /\ NumericSet(data) = {}
  /\ ~HasRecommendation(ret.recommendations, "Performance Monitoring", "Medium")

-----------------------------------------------------------------------------
(* Properties of the correlations of columns without variance              *)
(* (SpecStatistics).                                                       *)

\* the numeric columns that are constant or all null
ZeroVariance(df) ==
  {a \in NumericSet(df) :
     Cardinality({df.cols[a].cells[i].v :
                    i \in {r \in 1..len(df) : df.cols[a].cells[r].k = "num"}}) <= 1}

\* the position of a numeric column among the numeric columns
NumericRank(df, a) == Cardinality({j \in NumericSet(df) : j <= a})

\* C24: the statistics step returns its report for tables with constant or
\* all-null numeric columns; the correlation of such a column with any
\* other numeric column is NaN, and no pair with such a column is listed as
\* a strong correlation.
C24_ZeroVarianceIsNaNAndUnlisted ==
  pc = "done" =>
    /\ ret.status = "completed"
    /\ \A a \in ZeroVariance(data) : \A b \in NumericSet(data) \ {a} :
         /\ ret.details.correlations[NumericRank(data, a)][NumericRank(data, b)].k = "nan"
         /\ ret.details.correlations[NumericRank(data, b)][NumericRank(data, a)].k = "nan"
         /\ Listed(ret.details.strong_correlations,
                   data.cols[a].name, data.cols[b].name) = {}
         /\ Listed(ret.details.strong_correlations,
                   data.cols[b].name, data.cols[a].name) = {}

C24_Witness ==
  /\ pc = "done"
  /\ len(data) >= 3
  /\ NCols(data) = 3
  /\ NumericSet(data) = {1, 2, 3}
  /\ \A i \in 1..len(data) : data.cols[1].cells[i] = Num(2)
  /\ ZeroVariance(data) = {1}
  /\ Len(ret.details.strong_correlations) = 1
  /\ ret.details.correlations[1][2].k = "nan"

-----------------------------------------------------------------------------
(* Properties of the time series preparation (SpecChart).                  *)

\* the first ten rows of a column that hold a value
SampleOf(col) ==
  {i \in DOMAIN col.cells :
     /\ col.cells[i].k # "null"
     /\ Cardinality({r \in 1..i : col.cells[r].k # "null"}) <= 10}

\* a cell a date parser accepts; a cell a number parser accepts
DateLike(c) == c.k \in {"num", "inf"} \/ (c.k = "str" /\ ParseDate(c.s) >= 0)
NumberLike(c) == c.k \in {"num", "inf"} \/ (c.k = "str" /\ c.s \in {"12", "7"})

\* the columns found as dates by name and content: a date word in the name
\* and a sample that parses
FoundByName(df) ==
  {j \in 1..NCols(df) :
     /\ \E w \in {"date", "time", "month", "year", "day", "period"} :
          Contains(w, df.cols[j].name)
     /\ SampleOf(df.cols[j]) # {}
     /\ \A i \in SampleOf(df.cols[j]) : DateLike(df.cols[j].cells[i])}

\* C25: a date column comes from the first-column fallback only when no
\* column was found by name and content and the table has 2 or more
\* columns, and it is then the first column and no other; a table of one
\* column never gets a date column from the fallback.
C25_FallbackOnlyFirstColumn ==
  (pc \in {"build", "done"} /\ ret.date_columns # <<>>) =>
    /\ ret.via \in {"name", "first-column fallback"}
    /\ ret.via = "first-column fallback" =>
         /\ FoundByName(data) = {}
         /\ NCols(data) >= 2
         /\ ret.date_columns = <<data.cols[1].name>>
    /\ ret.via = "name" =>
         Range(ret.date_columns) = {data.cols[j].name : j \in FoundByName(data)}
    /\ NCols(data) = 1 => ret.via = "name"

C25_Witness ==
  /\ pc = "done"
  /\ ret.status = "series"
  /\ ret.via = "first-column fallback"
  /\ NCols(data) = 2
  /\ data.cols[1].name = "label"
  /\ data.cols[2].name = "revenue"
  /\ ret.date_columns = <<"label">>

\* the columns found as numbers: a sample that a number parser accepts whole
FoundNumeric(df) ==
  {j \in 1..NCols(df) :
     /\ SampleOf(df.cols[j]) # {}
     /\ \A i \in SampleOf(df.cols[j]) : NumberLike(df.cols[j].cells[i])}

\* the first column as the fallback takes it: its sample parses, or its
\* first value is a 'YYYY-MM' month string
FirstColumnIsDate(df) ==
  /\ SampleOf(df.cols[1]) # {}
  /\ \/ \A i \in SampleOf(df.cols[1]) : DateLike(df.cols[1].cells[i])
     \/ /\ df.cols[1].cells[1].k = "str"
        /\ \E m \in DOMAIN MonthLabels : MonthLabels[m] = df.cols[1].cells[1].s

\* the columns found as dates, by name and content or by the fallback
FoundDate(df) ==
  IF FoundByName(df) # {} THEN FoundByName(df)
  ELSE IF NCols(df) >= 2 /\ FirstColumnIsDate(df) THEN {1}
  ELSE {}

\* C27: the preparation returns None, and raises nothing, for an empty
\* table, a table without a detected date column and a table without a
\* detected numeric column; a series is returned only when both were
\* detected, and it pairs a detected date column with a detected numeric
\* column.
C27_NoneWithoutDateOrNumeric ==
  pc = "done" =>
    /\ raised = NoError
    /\ ret.status \in {"none", "series"}
    /\ (len(data) = 0 \/ FoundDate(data) = {} \/ FoundNumeric(data) = {})
         => ret.status = "none"
    /\ ret.status = "series" =>
         /\ \E j \in FoundDate(data) : data.cols[j].name = ret.date_col
         /\ \E j \in FoundNumeric(data) : data.cols[j].name = ret.value_col

C27_Witness ==
  /\ pc = "done"
  /\ len(data) >= 3
  /\ NCols(data) = 2
  /\ FoundDate(data) = {1}
  /\ FoundNumeric(data) = {}
  /\ data.cols[2].name = "code"
  /\ ret.status = "none"

\* the rows of the table with a date in column d and a number in column v
PairedRows(df, d, v) ==
  {i \in 1..len(df) :
     /\ df.cols[d].cells[i].k = "str"
     /\ ParseDate(df.cols[d].cells[i].s) >= 0
     /\ NumberLike(df.cols[v].cells[i])}

\* C28: a result that is not None has the two columns 'date' and 'value',
\* at least one row (one for each row of the table that has a date and a
\* number), no null in either column, and its dates never decrease from one
\* row to the next.
C28_SeriesIsSortedAndComplete ==
  (pc = "done" /\ ret.status = "series") =>
    /\ Len(ret.rows) >= 1
    /\ \A r \in 1..Len(ret.rows) :
         /\ DOMAIN ret.rows[r] = {"date", "value"}
         /\ ret.rows[r].date # NaT
         /\ ret.rows[r].value.k # "nan"
    /\ \A r \in 1..(Len(ret.rows) - 1) : ret.rows[r].date <= ret.rows[r + 1].date
    /\ \A d, v \in 1..NCols(data) :
         (/\ data.cols[d].name = ret.date_col
          /\ data.cols[v].name = ret.value_col
          /\ data.cols[d].dtype = "object")
           => Len(ret.rows) = Cardinality(PairedRows(data, d, v))

C28_Witness ==
  /\ pc = "done"
  /\ ret.status = "series"
  /\ ret.date_col = "order_date"
  /\ ret.value_col = "sales"
  /\ len(data) >= 3
  /\ Len(ret.rows) = 1

-----------------------------------------------------------------------------
(* AdvancedAnalytics (src/advanced_analytics.py): suggest_analysis_types   *)
(* and create_multi_chart_dashboard sort the columns into date, numeric    *)
(* and categorical columns before they choose their suggestions or charts. *)

ClassRows == 22

CategoryCap == 20

\* the except branch of suggest_analysis_types: reached when the head of the
\* column does not convert; data[col].nunique() < len(data) * 0.5
is_categorical_half(df, col) ==
  /\ ~HeadConverts(col)
  /\ col.dtype = "object"
  /\ 2 * NUnique(col) < len(df)

\* a variant of is_categorical_capped: 20 distinct values still count
is_categorical_capped_inclusive(df, col) ==
  /\ ~HeadConverts(col)
  /\ col.dtype = "object"
  /\ NUnique(col) <= CategoryCap

\* the except branch of create_multi_chart_dashboard: nunique() < 20
is_categorical_capped(df, col) ==
  /\ ~HeadConverts(col)
  /\ col.dtype = "object"
  /\ NUnique(col) < CategoryCap

\* the keywords `word in prompt_lower` finds in a prompt
PromptWords(prompt) ==
  CASE prompt = "Monthly trend" -> {"trend", "monthly"}
    [] prompt = "compare top products" -> {"compare", "top"}
    [] prompt = "summary stats" -> {"stats", "summary"}
    [] OTHER -> {}

Prompts == {"Monthly trend", "compare top products", "summary stats", "hello"}

Suggestion(type, prompt, words) ==
  [type |-> type, suitable |-> PromptWords(prompt) \cap words # {}]

suggest_analysis_types(df, prompt) ==
  LET numeric_cols == NumericCols(df)
      dcols == date_cols(df)
      categorical_cols == SelectIdx([j \in 1..NCols(df) |-> is_categorical_half(df, df.cols[j])],
                                    1, NCols(df))
  IN [date_cols |-> ColumnNamesAt(df, dcols),
      numeric_cols |-> ColumnNamesAt(df, numeric_cols),
      categorical_cols |-> ColumnNamesAt(df, categorical_cols),
      result |->
        (IF dcols # <<>> /\ numeric_cols # <<>>
           THEN <<Suggestion("Time Series", prompt,
                             {"trend", "time", "monthly", "daily", "forecast"})>>
           ELSE <<>>)
        \o (IF categorical_cols # <<>> /\ numeric_cols # <<>>
              THEN <<Suggestion("Comparison", prompt, {"compare", "top", "best", "vs", "by"})>>
              ELSE <<>>)
        \o (IF numeric_cols # <<>>
              THEN <<Suggestion("Distribution", prompt,
                                {"distribution", "outlier", "stats", "summary"})>>
              ELSE <<>>)
        \o (IF Len(numeric_cols) >= 2
              THEN <<Suggestion("Correlation", prompt,
                                {"correlation", "relationship", "impact"})>>
              ELSE <<>>)]

\* the charts the dashboard asks its helpers for, each with the columns it
\* passes; a helper answers with a figure or, on any exception, with None
create_multi_chart_dashboard(df, prompt) ==
  LET numeric_cols == NumericCols(df)
      dcols == date_cols(df)
      categorical_cols == SelectIdx([j \in 1..NCols(df) |-> is_categorical_capped(df, df.cols[j])],
                                    1, NCols(df))
      name(j) == df.cols[j].name
  IN [date_cols |-> ColumnNamesAt(df, dcols),
      numeric_cols |-> ColumnNamesAt(df, numeric_cols),
      categorical_cols |-> ColumnNamesAt(df, categorical_cols),
      result |->
        (IF dcols # <<>> /\ numeric_cols # <<>>
           THEN <<[chart |-> "time series", columns |-> <<name(dcols[1]), name(numeric_cols[1])>>]>>
           ELSE <<>>)
        \o (IF categorical_cols # <<>> /\ numeric_cols # <<>>
              THEN <<[chart |-> "top categories",
                      columns |-> <<name(categorical_cols[1]), name(numeric_cols[1])>>]>>
              ELSE <<>>)
        \o (IF numeric_cols # <<>>
              THEN <<[chart |-> "distribution", columns |-> <<name(numeric_cols[1])>>]>>
              ELSE <<>>)
        \o (IF Len(numeric_cols) >= 2
              THEN <<[chart |-> "correlation heatmap",
                      columns |-> ColumnNamesAt(df, SubSeq(numeric_cols, 1, Min(5, Len(numeric_cols))))]>>
              ELSE <<>>)]

\* frames for the column roles: a column of labels with k distinct values
\* (its first cell possibly null or a date), a date column, a number column
CategoryLabels ==
  <<"c01", "c02", "c03", "c04", "c05", "c06", "c07", "c08", "c09", "c10", "c11", "c12",
    "c13", "c14", "c15", "c16", "c17", "c18", "c19", "c20", "c21", "c22", "c23", "c24">>

LabelSeries(R, k) == [i \in 1..R |-> Str(CategoryLabels[((i - 1) % k) + 1])]

ClassFirstColumns(R) ==
  {ObjectColumn("segment", LabelSeries(R, k)) : k \in 1..Max(1, Min(R, 24))}
  \cup {ObjectColumn("segment", [i \in 1..R |-> IF i = 1 THEN Null ELSE LabelSeries(R, k)[i]]) :
          k \in 1..Max(1, Min(R, 24))}
  \cup {ObjectColumn("order_date", [i \in 1..R |-> Str(DayLabels[((i - 1) % k) + 1])]) :
          k \in 1..Max(1, Min(R, 3))}
  \cup {ObjectColumn("shipped", [i \in 1..R |-> IF i = 1 THEN Str("n/a") ELSE Str("2024-01-20")]),
        ObjectColumn("shipped", [i \in 1..R |-> IF i = 6 THEN Str("n/a") ELSE Str("2024-01-20")]),
        NumericColumn("revenue", [i \in 1..R |-> Num(1)]),
        NumericColumn("qty", [i \in 1..R |-> IF i = 1 THEN Null ELSE Num(i % 3)])}

InitClassify ==
  /\ \E R \in 0..ClassRows :
       \E first \in ClassFirstColumns(R) :
         \/ data = Frame(R, <<first>>)
         \/ first.name # "revenue"
              /\ data = Frame(R, <<first, NumericColumn("revenue", [i \in 1..R |-> Num(i)])>>)
  /\ pc = "call"
  /\ analysis_results = EmptyResults
  /\ raised = NoError
  /\ ret = NoReturn
  /\ session_state = NoSession

SuggestAnalysisTypes ==
  /\ pc = "call"
  /\ \E prompt \in Prompts : ret' = suggest_analysis_types(data, prompt)
  /\ pc' = "suggested"
  /\ UNCHANGED <<data, analysis_results, raised>>
  /\ UNCHANGED session_state

CreateMultiChartDashboard ==
  /\ pc = "call"
  /\ \E prompt \in Prompts : ret' = create_multi_chart_dashboard(data, prompt)
  /\ pc' = "charted"
  /\ UNCHANGED <<data, analysis_results, raised>>
  /\ UNCHANGED session_state

NextClassify == SuggestAnalysisTypes \/ CreateMultiChartDashboard

SpecClassify == InitClassify /\ [][NextClassify]_vars

-----------------------------------------------------------------------------
(* Properties of the column roles of AdvancedAnalytics (SpecClassify).     *)

\* the distinct strings of a column
DistinctStrings(col) ==
  {col.cells[i].s : i \in {r \in DOMAIN col.cells : col.cells[r].k = "str"}}

\* a column a date parser accepts on its first five rows
DateParseable(col) ==
  \A i \in DOMAIN col.cells :
    (i <= 5 /\ col.cells[i].k = "str") => ParseDate(col.cells[i].s) >= 0

\* C26: a column is among the categorical columns only if it is neither a
\* date column nor a numeric column and its number of distinct values is
\* strictly below half of the row count (suggest_analysis_types) or
\* strictly below 20 (create_multi_chart_dashboard); a date-parseable or
\* numeric column is never categorical.
C26_CategoricalOnlyBelowThreshold ==
  pc \in {"suggested", "charted"} =>
    \A j \in 1..NCols(data) :
      LET col == data.cols[j]
          categorical == col.name \in Range(ret.categorical_cols)
      IN /\ categorical =>
              /\ col.name \notin Range(ret.date_cols)
              /\ col.name \notin Range(ret.numeric_cols)
              /\ pc = "suggested" => 2 * Cardinality(DistinctStrings(col)) < len(data)
              /\ pc = "charted" => Cardinality(DistinctStrings(col)) < 20
         /\ (DateParseable(col) \/ j \in NumericSet(data)) => ~categorical

C26_Witness ==
  /\ pc = "charted"
  /\ len(data) >= 21
  /\ data.cols[1].name = "segment"
  /\ Cardinality(DistinctStrings(data.cols[1])) = 19
  /\ ret.categorical_cols = <<"segment">>
  /\ 2 * Cardinality(DistinctStrings(data.cols[1])) >= len(data)

-----------------------------------------------------------------------------
(* ForecastingEngine (src/forecasting.py).  A date is kept as its month    *)
(* and its day of the month; the fitted line is kept in exact fractions    *)
(* and the standard error as its square.  Prophet is an optional library:  *)
(* whether it was imported, and whether its fit succeeds, are inputs.      *)

ForecastRows == 10
ForecastPeriods == 3

\* the day of the month of a parsed date string
ParseDay(s) ==
  CASE \E m \in DOMAIN MonthLabels : MonthLabels[m] = s -> 1
    [] \E m \in DOMAIN DayLabels : DayLabels[m] = s -> 15
    [] s = "2024-01-20" -> 20
    [] s = "2023-12-31" -> 31
    [] OTHER -> 0

\* the days of a month (year * 12 + month - 1), for the years 1901 to 2099
MonthDays(month) ==
  CASE month % 12 = 1 -> IF (month \div 12) % 4 = 0 THEN 29 ELSE 28
    [] month % 12 \in {3, 5, 8, 10} -> 30
    [] OTHER -> 31

RECURSIVE AddDays(_, _, _)
\* date + timedelta(days=n)
AddDays(month, day, n) ==
  IF day + n <= MonthDays(month) THEN [month |-> month, day |-> day + n]
  ELSE AddDays(month + 1, 1, n - (MonthDays(month) - day) - 1)

\* last_date + timedelta(days=30 * i)
future_date(last_date, i) == AddDays(last_date.month, last_date.day, 30 * i)

NoForecast == [status |-> "none"]

\* pd.to_numeric(data.iloc[:, 1], errors='coerce') keeps the cell
Coerces(c) == to_numeric(c).k = "fin"

\* lines 76-123: None under 3 rows or 3 numbers and on any exception (no
\* second column, a date that does not parse, strftime of a missing last
\* date); else the line through the values, continued by `periods` steps
simple_trend_forecast(df, periods) ==
  IF len(df) < 3 THEN NoForecast
  ELSE IF NCols(df) < 2 THEN NoForecast
  ELSE IF ~ColumnConverts(df.cols[1]) THEN NoForecast
  ELSE
    LET valid == SelectIdx([i \in 1..len(df) |-> Coerces(df.cols[2].cells[i])], 1, len(df))
        n == Len(valid)
        y == [r \in 1..n |-> to_numeric(df.cols[2].cells[valid[r]]).n]
        last == df.cols[1].cells[valid[n]]
        sx == SumSeq([r \in 1..n |-> r - 1])
        sy == SumSeq(y)
        A == n * SumSeq([r \in 1..n |-> y[r] * y[r]]) - sy * sy
        B == n * SumSeq([r \in 1..n |-> (r - 1) * y[r]]) - sx * sy
        C == n * SumSeq([r \in 1..n |-> (r - 1) * (r - 1)]) - sx * sx
    IN IF n < 3 THEN NoForecast
       ELSE IF periods > 0 /\ CellMonth(last) = NaT THEN NoForecast
       ELSE [status |-> "forecast",
             method |-> "simple",
             rows |-> [i \in 1..periods |->
                         [date |-> future_date([month |-> CellMonth(last),
                                                day |-> ParseDay(last.s)], i).month,
                          forecast |-> Frac(B * (n * (n - 1 + i) - sx) + C * sy, n * C),
                          std_error_sq |-> Frac(A * C - B * B, n * n * C),
                          lower_bound |-> [z |-> -196],
                          upper_bound |-> [z |-> 196]]]]

\* lines 30-71: None without a second column; the simple forecast under 10
\* complete rows; else Prophet's forecast, or the exception it raises
prophet_forecast(df, periods, fits) ==
  IF NCols(df) < 2 THEN Returns(NoForecast)
  ELSE IF ~ColumnConverts(df.cols[1]) THEN Raise("ValueError", 39)
  ELSE IF Len(SelectIdx([i \in 1..len(df) |->
                           /\ CellMonth(df.cols[1].cells[i]) # NaT
                           /\ Coerces(df.cols[2].cells[i])], 1, len(df))) < 10
    THEN Returns(simple_trend_forecast(df, periods))
  ELSE IF fits THEN Returns([status |-> "forecast", method |-> "prophet", rows |-> <<>>])
  ELSE Raise("Exception", 57)

\* lines 21-28
generate_forecast(df, periods, prophet_available, fits) ==
  IF ~prophet_available THEN simple_trend_forecast(df, periods)
  ELSE IF IsRaise(prophet_forecast(df, periods, fits))
    THEN simple_trend_forecast(df, periods)
  ELSE prophet_forecast(df, periods, fits).value

\* frames for the forecast: month or day strings and a value column
ForecastDates(R) ==
  {[i \in 1..R |-> Str(MonthLabels[i + s])] : s \in 0..3}
  \cup {[i \in 1..R |-> Str(DayLabels[i])],
        [i \in 1..R |-> Str(MonthLabels[R + 1 - i])],
        [i \in 1..R |-> IF i = R THEN Str("n/a") ELSE Str(MonthLabels[i])],
        [i \in 1..R |-> IF i = R THEN Null ELSE Str(MonthLabels[i])],
        [i \in 1..R |-> IF i = 1 THEN Null ELSE Str(MonthLabels[i])]}

ForecastValues(R) ==
  {[i \in 1..R |-> Num(i)],
   [i \in 1..R |-> Num(5)],
   [i \in 1..R |-> Num(i % 3)],
   [i \in 1..R |-> IF i % 2 = 0 THEN Str("n/a") ELSE Str("12")],
   [i \in 1..R |-> IF i <= 2 THEN Num(i) ELSE Null],
   [i \in 1..R |-> IF i = 1 THEN Null ELSE Num(R - i)],
   [i \in 1..R |-> Str("n/a")]}

InitForecast ==
  /\ \E R \in 0..ForecastRows :
       \E dates \in ForecastDates(R) :
         \/ data = Frame(R, <<ObjectColumn("date", dates)>>)
         \/ \E values \in ForecastValues(R) :
              data = Frame(R, <<ObjectColumn("date", dates), StatColumn("value", values)>>)
  /\ pc = "call"
  /\ analysis_results = EmptyResults
  /\ raised = NoError
  /\ ret = NoReturn
  /\ session_state = NoSession

\* ret is the result with the `periods` it was asked for
GenerateForecast ==
  /\ pc = "call"
  /\ \E periods \in 1..ForecastPeriods, prophet_available \in BOOLEAN, fits \in BOOLEAN :
       ret' = [periods |-> periods,
               result |-> generate_forecast(data, periods, prophet_available, fits)]
  /\ pc' = "done"
  /\ UNCHANGED <<data, analysis_results, raised>>
  /\ UNCHANGED session_state

SpecForecast == InitForecast /\ [][GenerateForecast]_vars

-----------------------------------------------------------------------------
(* Properties of the forecast (SpecForecast).                              *)

\* the values of the second column that are numbers
NumbersOf(df) ==
  IF NCols(df) < 2 THEN {}
  ELSE {i \in 1..len(df) : NumberLike(df.cols[2].cells[i])}

\* C29: generate_forecast raises nothing; it returns None for a series of
\* fewer than 3 rows or fewer than 3 numbers; otherwise the simple trend
\* returns exactly `periods` rows, their dates increasing from row to row,
\* each with lower_bound <= forecast <= upper_bound.
C29_ForecastRowsIncreasing ==
  pc = "done" =>
    /\ raised = NoError
    /\ (len(data) < 3 \/ Cardinality(NumbersOf(data)) < 3) => ret.result.status = "none"
    /\ (len(data) >= 3 /\ Cardinality(NumbersOf(data)) >= 3) =>
         \/ ret.result.status = "forecast" /\ ret.result.method = "prophet"
         \/ /\ ret.result.status = "forecast"
            /\ Len(ret.result.rows) = ret.periods
            /\ \A r \in 1..(Len(ret.result.rows) - 1) :
                 ret.result.rows[r].date < ret.result.rows[r + 1].date
            /\ \A r \in 1..Len(ret.result.rows) :
                 LET row == ret.result.rows[r]
                 IN /\ row.std_error_sq.d > 0
                    /\ row.std_error_sq.n >= 0
                    /\ row.lower_bound.z <= 0
                    /\ row.upper_bound.z >= 0

-----------------------------------------------------------------------------
(* DatabaseConnector (src/database_connectors.py) in the session of the    *)
(* application (src/app.py): session_state holds the connector, the label  *)
(* connected_db and the drivers the process could import.  Whether a       *)
(* connection attempt or a query succeeds is decided outside the program:  *)
(* it is an input of the call.                                             *)

Hosts == {"db1", "db2"}

NoConnection == [engine |-> "none", target |-> ""]

\* DatabaseConnector.__init__
DatabaseConnector ==
  [connection |-> NoConnection, db_type |-> "none", connection_params |-> <<>>]

ServerParams(host, port) ==
  [host |-> host, port |-> port, database |-> "sales", username |-> "u", password |-> "p"]

ConnectOutcomes == {"ok", "create_engine raises", "test raises"}

\* the connector after the call and the value returned
Called(self, value) == [self |-> self, value |-> value]

\* sqlite3.connect raises before anything is assigned
connect_sqlite(self, db_path, outcome) ==
  IF outcome # "ok" THEN Called(self, FALSE)
  ELSE Called([connection |-> [engine |-> "sqlite", target |-> db_path],
               db_type |-> "sqlite",
               connection_params |-> [db_path |-> db_path]], TRUE)

\* the engine, db_type and connection_params are assigned (lines 84-89)
\* before the connection is tested (lines 91-92)
connect_postgresql(self, available, params, outcome) ==
  IF ~available THEN Called(self, FALSE)
  ELSE IF outcome = "create_engine raises" THEN Called(self, FALSE)
  ELSE Called([connection |-> [engine |-> "postgresql", target |-> params.host],
               db_type |-> "postgresql",
               connection_params |-> params], outcome = "ok")

\* as connect_postgresql: assigned at lines 108-113, tested at 115-116
connect_mysql(self, available, params, outcome) ==
  IF ~available THEN Called(self, FALSE)
  ELSE IF outcome = "create_engine raises" THEN Called(self, FALSE)
  ELSE Called([connection |-> [engine |-> "mysql", target |-> params.host],
               db_type |-> "mysql",
               connection_params |-> params], outcome = "ok")

\* the query runs on self.connection, whatever connect_* left there
execute_query(self, answers) ==
  IF self.connection = NoConnection THEN Raise("Exception", 165)
  ELSE IF ~answers THEN Raise("Exception", 179)
  ELSE Returns([ran_on |-> self.connection])

\* app.py lines 35-41: the connector is created and connected to SQLite, the
\* result of that call is not looked at, and the label is set
InitSession ==
  /\ \E postgres \in BOOLEAN, mysql \in BOOLEAN, outcome \in {"ok", "connect raises"} :
       session_state =
         [db_connector |-> connect_sqlite(DatabaseConnector, "analytics.db", outcome).self,
          connected_db |-> "SQLite (Local)",
          POSTGRES_AVAILABLE |-> postgres,
          MYSQL_AVAILABLE |-> mysql]
  /\ data = Frame(0, <<>>)
  /\ pc = "session"
  /\ analysis_results = EmptyResults
  /\ raised = NoError
  /\ ret = [call |-> "none", value |-> TRUE]

\* the button of a backend: the label follows only a True return
Connected(call, called, label) ==
  /\ session_state' = [session_state EXCEPT
                         !.db_connector = called.self,
                         !.connected_db = IF called.value THEN label ELSE @]
  /\ ret' = [call |-> call, value |-> called.value]
  /\ UNCHANGED <<data, pc, analysis_results, raised>>

ConnectSqlite ==
  /\ pc = "session"
  /\ \E outcome \in {"ok", "connect raises"} :
       Connected("connect_sqlite",
                 connect_sqlite(session_state.db_connector, "analytics.db", outcome),
                 "SQLite (Local)")

ConnectPostgresql ==
  /\ pc = "session"
  /\ \E host \in Hosts, outcome \in ConnectOutcomes :
       Connected("connect_postgresql",
                 connect_postgresql(session_state.db_connector,
                                    session_state.POSTGRES_AVAILABLE,
                                    ServerParams(host, "5432"), outcome),
                 "PostgreSQL")

ConnectMysql ==
  /\ pc = "session"
  /\ \E host \in Hosts, outcome \in ConnectOutcomes :
       Connected("connect_mysql",
                 connect_mysql(session_state.db_connector,
                               session_state.MYSQL_AVAILABLE,
                               ServerParams(host, "3306"), outcome),
                 "MySQL")

\* app.py lines 452-455: the connector runs the query when it holds a
\* connection, else the local database manager does
ExecuteQuery ==
  /\ pc = "session"
  /\ \E answers \in BOOLEAN :
       ret' = [call |-> "execute_query",
               value |-> IF session_state.db_connector.connection # NoConnection
                           THEN execute_query(session_state.db_connector, answers)
                           ELSE Returns([ran_on |-> "db_manager"])]
  /\ UNCHANGED <<data, pc, analysis_results, raised, session_state>>

NextSession == ConnectSqlite \/ ConnectPostgresql \/ ConnectMysql \/ ExecuteQuery

SpecSession == InitSession /\ [][NextSession]_vars

-----------------------------------------------------------------------------
(* Properties of the connector (SpecSession).                              *)

\* the label the application shows for a backend
LabelOf(db_type) ==
  CASE db_type = "sqlite" -> "SQLite (Local)"
    [] db_type = "postgresql" -> "PostgreSQL"
    [] db_type = "mysql" -> "MySQL"
    [] OTHER -> "none"

\* C30: a connect_* call that returns False leaves connection, db_type and
\* connection_params as they were, so after every call the label
\* connected_db names the backend the connector holds.
C30_FailedConnectChangesNothing ==
  [][(ret'.call \in {"connect_sqlite", "connect_postgresql", "connect_mysql"}
        /\ ret'.value = FALSE)
       => /\ session_state'.db_connector = session_state.db_connector
          /\ (LabelOf(session_state.db_connector.db_type) = session_state.connected_db
                => LabelOf(session_state'.db_connector.db_type) = session_state'.connected_db)]_vars

=========================================================================
